---- MODULE Spec2Model ----
(***************************************************************************)
(* The agent execution engine of ChatLab (electron/main/ai/agent.ts):      *)
(* the multi-round tool-calling loop of Agent.execute and                  *)
(* Agent.executeStream, the streaming tag parser, the fallback tool-call   *)
(* extractor, the semantic pipeline and the usage accumulator.             *)
(*                                                                         *)
(* Text is a sequence of tokens.  A marker (<think>, </think>,             *)
(* <tool_call>, </tool_call>) is one token, a JSON payload is one token,   *)
(* a whitespace character is one token, and every other token is one       *)
(* visible character.  Stream deltas split a text between tokens.          *)
(***************************************************************************)
EXTENDS Integers, Sequences, FiniteSets, TLC

\* ------------------------------------------------------------------ bounds
\* The largest round budget an Agent is configured with.
MaxBudget == 1
\* How often one Agent is invoked.
MaxInvocations == 2
\* How many iterations of executeStream's loop may pass without a return or a
\* dispatch (the loop itself sets no limit).
MaxIdleRounds == 1

\* ------------------------------------------------------------------ tokens
ThinkOpen == "<think>"
ThinkClose == "</think>"
ToolOpen == "<tool_call>"
ToolOpenUpper == "<TOOL_CALL>"
ToolClose == "</tool_call>"
Space == " "

\* JSON payloads of a tool-call block: two well-formed calls, a well-formed
\* object without a name, and text that is not JSON.
JsonRecent == "{\"name\":\"get_recent_messages\",\"arguments\":{\"limit\":10}}"
JsonSearch == "{\"name\":\"search_messages\",\"arguments\":\"{}\"}"
JsonNoName == "{\"arguments\":{}}"
JsonBroken == "{\"name\":"

\* ------------------------------------------------------------------ strings
\* String.prototype.indexOf for a one-token needle, any token of the set hits;
\* 0 when absent (indices are 1-based here, so JavaScript's -1 is 0).
RECURSIVE IndexFrom(_, _, _)
IndexFrom(s, hits, from) ==
  IF from > Len(s) THEN 0
  ELSE IF s[from] \in hits THEN from
  ELSE IndexFrom(s, hits, from + 1)

\* The markers as the case-insensitive regular expressions see them.
AnyThinkOpen == {ThinkOpen}
AnyThinkClose == {ThinkClose}
AnyToolOpen == {ToolOpen, ToolOpenUpper}
AnyToolClose == {ToolClose}
\* The marker as accumulatedContent.indexOf('<tool_call>') sees it.
ExactToolOpen == {ToolOpen}
IsSpace(t) == t = Space

\* String.prototype.slice(from) and slice(from, to) with 0-based arguments.
SliceFrom(s, from) == SubSeq(s, from + 1, Len(s))
Slice(s, from, to) == SubSeq(s, from + 1, to)

RECURSIVE TrimStart(_)
TrimStart(s) ==
  IF s # <<>> /\ IsSpace(s[1]) THEN TrimStart(Tail(s)) ELSE s

RECURSIVE TrimEnd(_)
TrimEnd(s) ==
  IF s # <<>> /\ IsSpace(s[Len(s)]) THEN TrimEnd(SubSeq(s, 1, Len(s) - 1)) ELSE s

\* String.prototype.trim
Trim(s) == TrimEnd(TrimStart(s))

\* Is sub a substring of s starting at index i?
OccursAt(s, sub, i) ==
  /\ i + Len(sub) - 1 <= Len(s)
  /\ SubSeq(s, i, i + Len(sub) - 1) = sub

\* String.prototype.replace(sub, ''): the first occurrence of sub is removed.
ReplaceFirst(s, sub) ==
  IF \E i \in 1..Len(s) : OccursAt(s, sub, i)
  THEN LET i == CHOOSE k \in 1..Len(s) :
                  /\ OccursAt(s, sub, k)
                  /\ \A j \in 1..(k - 1) : ~OccursAt(s, sub, j)
       IN SubSeq(s, 1, i - 1) \o SubSeq(s, i + Len(sub), Len(s))
  ELSE s

\* matchAll of /open([\s\S]*?)close/g from index from: each match runs from the
\* leftmost opening marker to the nearest closing marker after it, and the
\* search resumes after the match.  A match is <<first, last>>.
RECURSIVE Matches(_, _, _, _)
Matches(s, open, close, from) ==
  LET i == IndexFrom(s, open, from)
      j == IF i = 0 THEN 0 ELSE IndexFrom(s, close, i + 1)
  IN IF i = 0 \/ j = 0 THEN <<>>
     ELSE <<(<<i, j>>)>> \o Matches(s, open, close, j + 1)

\* String.prototype.replace(/open[\s\S]*?close/g, ''): every match is removed.
RECURSIVE RemoveMatches(_, _, _)
RemoveMatches(s, open, close) ==
  LET i == IndexFrom(s, open, 1)
      j == IF i = 0 THEN 0 ELSE IndexFrom(s, close, i + 1)
  IN IF i = 0 \/ j = 0 THEN s
     ELSE SubSeq(s, 1, i - 1) \o RemoveMatches(SubSeq(s, j + 1, Len(s)), open, close)

\* ------------------------------------------------------------------ fallback parser
\* extractThinkingContent(content).cleanContent: every match of the thinking
\* expression is removed from cleanContent by a first-occurrence replace, and the
\* result is trimmed.
RECURSIVE RemoveEach(_, _, _)
RemoveEach(clean, content, ms) ==
  IF ms = <<>> THEN clean
  ELSE RemoveEach(ReplaceFirst(clean, SubSeq(content, ms[1][1], ms[1][2])),
                  content, Tail(ms))

extractThinkingContent(content) ==
  Trim(RemoveEach(content, content, Matches(content, AnyThinkOpen, AnyThinkClose, 1)))

\* hasToolCallTags: /<tool_call>/i.test(content)
hasToolCallTags(content) == \E i \in 1..Len(content) : content[i] \in AnyToolOpen

\* JSON.parse of a block's payload, and the fields the extractor reads.
\* ok: the text parses; name: parsed.name ("" when missing); arguments: the
\* JSON text the call carries ("" when parsed.arguments is missing).
ParseJson(payload) ==
  IF payload = <<JsonRecent>>
    THEN [ok |-> TRUE, name |-> "get_recent_messages", arguments |-> "{\"limit\":10}"]
  ELSE IF payload = <<JsonSearch>>
    THEN [ok |-> TRUE, name |-> "search_messages", arguments |-> "{}"]
  ELSE IF payload = <<JsonNoName>>
    THEN [ok |-> TRUE, name |-> "", arguments |-> "{}"]
  ELSE [ok |-> FALSE, name |-> "", arguments |-> ""]

\* A normalized tool call.
ToolCall(id, name, arguments) ==
  [id |-> id, type |-> "function", name |-> name, arguments |-> arguments]

\* An extraction that ends at the first block that yields no call.
RECURSIVE ParseBlocksUntilFailure(_, _, _)
ParseBlocksUntilFailure(content, ms, seed) ==
  IF ms = <<>> THEN <<>>
  ELSE LET inner == Trim(SubSeq(content, ms[1][1] + 1, ms[1][2] - 1))
           parsed == ParseJson(inner)
       IN IF parsed.ok /\ parsed.name # "" /\ parsed.arguments # ""
          THEN <<ToolCall(<<"fallback", seed>>, parsed.name, parsed.arguments)>>
                 \o ParseBlocksUntilFailure(content, Tail(ms), seed + 1)
          ELSE <<>>

\* The loop of parseToolCallTags over the matches ms; seed numbers the ids the
\* way randomUUID makes them distinct.
RECURSIVE ParseBlocks(_, _, _)
ParseBlocks(content, ms, seed) ==
  IF ms = <<>> THEN <<>>
  ELSE LET inner == Trim(SubSeq(content, ms[1][1] + 1, ms[1][2] - 1))
           parsed == ParseJson(inner)
       IN IF parsed.ok /\ parsed.name # "" /\ parsed.arguments # ""
          THEN <<ToolCall(<<"fallback", seed>>, parsed.name, parsed.arguments)>>
                 \o ParseBlocks(content, Tail(ms), seed + 1)
          ELSE ParseBlocks(content, Tail(ms), seed)

\* parseToolCallTags(content): the calls, or the empty sequence for null.
parseToolCallTags(content, seed) ==
  ParseBlocks(content, Matches(content, AnyToolOpen, AnyToolClose, 1), seed)

\* cleanContent.replace(/<tool_call>[\s\S]*?<\/tool_call>/gi, '').trim()
StripToolCalls(clean) == Trim(RemoveMatches(clean, AnyToolOpen, AnyToolClose))

\* ------------------------------------------------------------------ streaming tag parser
\* The locals of one streaming model call.
ParserInit ==
  [accumulatedContent |-> <<>>, displayedContent |-> <<>>,
   isBufferingThink |-> FALSE, isBufferingToolCall |-> FALSE, out |-> <<>>]

Contains(s, hits) == IndexFrom(s, hits, 1) # 0

\* The opening thinking marker seen while not buffering: the text before it that
\* was not shown yet is forwarded.
ThinkOpenStep(st) ==
  IF ~st.isBufferingThink /\ Contains(st.accumulatedContent, AnyThinkOpen)
  THEN LET acc == st.accumulatedContent
           thinkStart == IndexFrom(acc, AnyThinkOpen, 1) - 1
       IN IF thinkStart > Len(st.displayedContent)
          THEN [st EXCEPT !.isBufferingThink = TRUE,
                          !.out = Append(@, Slice(acc, Len(st.displayedContent), thinkStart)),
                          !.displayedContent = Slice(acc, 0, thinkStart)]
          ELSE [st EXCEPT !.isBufferingThink = TRUE]
  ELSE st

\* The closing thinking marker seen while buffering: displayedContent becomes the
\* buffer up to the end of the first closing marker.
ThinkCloseStep(st) ==
  IF st.isBufferingThink /\ Contains(st.accumulatedContent, AnyThinkClose)
  THEN LET acc == st.accumulatedContent
           thinkEnd == IndexFrom(acc, AnyThinkClose, 1)
       IN [st EXCEPT !.isBufferingThink = FALSE,
                     !.displayedContent = Slice(acc, 0, thinkEnd)]
  ELSE st

\* Outside a thinking span: the opening tool-call marker starts the buffering of
\* the tool call, and otherwise the suffix not shown yet is forwarded.
ToolOrTextStep(st) ==
  LET acc == st.accumulatedContent
      shown == Len(st.displayedContent)
  IN IF st.isBufferingThink \/ st.isBufferingToolCall THEN st
     ELSE IF Contains(acc, AnyToolOpen)
       THEN LET tagStart == IndexFrom(acc, ExactToolOpen, 1) - 1
            IN IF tagStart > shown
               THEN [st EXCEPT !.isBufferingToolCall = TRUE,
                               !.out = Append(@, Slice(acc, shown, tagStart)),
                               !.displayedContent = Slice(acc, 0, tagStart)]
               ELSE [st EXCEPT !.isBufferingToolCall = TRUE]
     ELSE IF SliceFrom(acc, shown) # <<>>
       THEN [st EXCEPT !.out = Append(@, SliceFrom(acc, shown)),
                       !.displayedContent = acc]
     ELSE st

\* One chunk with a content fragment: the body of "if (chunk.content)".  out is
\* the content chunks it hands to onChunk, in order.
ParserStep(st, delta) ==
  IF delta = <<>> THEN [st EXCEPT !.out = <<>>]
  ELSE ToolOrTextStep(ThinkCloseStep(ThinkOpenStep(
         [st EXCEPT !.accumulatedContent = @ \o delta, !.out = <<>>])))

\* Feeding a list of deltas from the start, and everything forwarded by it.
RECURSIVE Feed(_, _, _)
Feed(st, deltas, shownSoFar) ==
  IF deltas = <<>> THEN [st |-> st, forwarded |-> shownSoFar]
  ELSE LET nx == ParserStep(st, deltas[1])
       IN Feed(nx, Tail(deltas), shownSoFar \o nx.out)

\* ------------------------------------------------------------------ inputs
\* Token usage of one model call; present = FALSE is a response without a usage
\* record.
ZeroUsage == [promptTokens |-> 0, completionTokens |-> 0, totalTokens |-> 0]
NoUsage == [present |-> FALSE, promptTokens |-> 0, completionTokens |-> 0, totalTokens |-> 0]
SomeUsage == [present |-> TRUE, promptTokens |-> 2, completionTokens |-> 1, totalTokens |-> 3]
Usages == {NoUsage, SomeUsage}

\* The texts a model answers with.
Contents ==
  { <<"a", "b">>,
    <<Space, "a", Space>>,
    <<ThinkOpen, "r", ThinkClose, "a", "b">>,
    <<"a", ThinkOpen, "r", ThinkClose, "b">>,
    <<ThinkOpen, "r", ThinkClose, ThinkOpen, "s", ThinkClose, "a">>,
    <<ThinkOpen, "r">>,
    <<"a", ToolOpen, JsonRecent, ToolClose, "b">>,
    <<ToolOpenUpper, JsonRecent, ToolClose>>,
    <<ToolOpen, JsonRecent, ToolClose, ToolOpen, JsonBroken, ToolClose,
      ToolOpen, JsonSearch, ToolClose>>,
    <<"a", ToolOpen, JsonBroken, ToolClose>>,
    <<ThinkOpen, "r", ThinkClose, "a", ToolOpen, JsonBroken, ToolClose>>,
    <<ToolOpen, JsonNoName, ToolClose>>,
    <<"a", ToolOpen, JsonRecent>> }

\* The texts that come with native structured tool calls.
NativeContents == { <<"a">>, <<ToolOpen, JsonRecent, ToolClose>> }

\* The texts of responses that carry no usage record.
UnmeteredContents == { <<"a", "b">> }


\* The native tool-call lists of a response, numbered from seed: none
\* (undefined), the empty list, two calls.
NoCalls == [present |-> FALSE, calls |-> <<>>]
EmptyCalls == [present |-> TRUE, calls |-> <<>>]
NativeCalls(seed) ==
  [present |-> TRUE,
   calls |-> <<ToolCall(<<"native", seed>>, "get_recent_messages", "{}"),
               ToolCall(<<"native", seed + 1>>, "search_messages", "{}")>>]

FinishReasons == {"stop", "tool_calls"}

\* The responses of the model transport to one call: {content, tool_calls?,
\* finishReason, usage}.
Responses(seed) ==
  [content : Contents, tool_calls : {NoCalls}, finishReason : {"stop"}, usage : {SomeUsage}]
  \cup [content : UnmeteredContents, tool_calls : {NoCalls}, finishReason : {"stop"},
        usage : {NoUsage}]
  \cup [content : NativeContents, tool_calls : {NativeCalls(seed)},
        finishReason : FinishReasons, usage : {SomeUsage}]
  \cup [content : {<<"a">>}, tool_calls : {EmptyCalls},
        finishReason : FinishReasons, usage : {SomeUsage}]

\* The responses to the last call, which is made without tool schemas and of
\* which only the content and the usage are read.
FinalResponses ==
  { [content |-> <<"a", "b">>, tool_calls |-> NoCalls, finishReason |-> "stop",
     usage |-> NoUsage],
    [content |-> <<ThinkOpen, ThinkClose, "a">>, tool_calls |-> NoCalls,
     finishReason |-> "stop", usage |-> SomeUsage] }

\* The outcome of one tool call: success with a result, success with an empty
\* result, failure with an error.
ToolOutcomes == {"ok", "error"}
PipelineOutcomes == {"ok", "empty", "error"}

\* All sequences of n outcomes.
RECURSIVE OutcomeLists(_)
OutcomeLists(n) ==
  IF n = 0 THEN {<<>>}
  ELSE {Append(l, o) : l \in OutcomeLists(n - 1), o \in ToolOutcomes}

\* The user's questions, by what shouldAutoSemanticSearch reads of them: the
\* trimmed length, whether a trigger word occurs, whether a tool is named.
\* The first stands for the 8-character question about the messages of
\* October 1st, the second for the 9-character question about a relationship.
DateQuestion == [text |-> "date question", length |-> 8, trigger |-> FALSE, namesTool |-> FALSE]
RelationQuestion == [text |-> "relationship question", length |-> 9, trigger |-> TRUE, namesTool |-> FALSE]
UserMessages == {DateQuestion, RelationQuestion}

\* ------------------------------------------------------------------ configuration
\* The embedding model of the active configuration, as text: getActiveConfig is
\* read once per invocation, by getEmbeddingModel.
EmbeddingModels == { <<>>, <<Space>>, <<"m">> }

\* context.maxMessagesLimit; 0 is "not set".
MessageLimits == {0, 10, 100}

\* One message of the transcript: role, what its content is, the tool calls an
\* assistant message carries and the correlation id of a tool message.
NoId == <<"none", 0>>
Message(role, kind) == [role |-> role, kind |-> kind, tool_calls |-> <<>>, tool_call_id |-> NoId]
AssistantMessage(calls) ==
  [role |-> "assistant", kind |-> "calls", tool_calls |-> calls, tool_call_id |-> NoId]
ToolMessage(kind, id) ==
  [role |-> "tool", kind |-> kind, tool_calls |-> <<>>, tool_call_id |-> id]

\* The prior history an Agent is constructed with.
Histories ==
  { <<Message("user", "history"), Message("assistant", "history")>> }

\* What an Agent is constructed with.  context.maxMessagesLimit is read once
\* per invocation, by runSemanticPipeline, and is drawn there.
Configs == [maxToolRounds : 0..MaxBudget, historyMessages : Histories]

\* ------------------------------------------------------------------ state
VARIABLES
  capture,        \* one call of captureAsImageData: its locals and where it is
  cfg,            \* the Agent's configuration and history
  tools,          \* does the catalog getAllToolDefinitions returned hold
                  \* semantic_search_messages?
  messages,       \* Agent.messages, the transcript
  toolsUsed,      \* Agent.toolsUsed
  toolRounds,     \* Agent.toolRounds
  totalUsage,     \* Agent.totalUsage, one object for the Agent's lifetime
  aborted,        \* abortSignal.aborted
  mode,           \* "execute" or "executeStream", the entry point running
  userMessage,    \* the argument of the invocation
  pc,             \* where the invocation is suspended
  finalContent,   \* executeStream's local finalContent
  parser,         \* the locals of the current streaming model call
  toolCalls,      \* executeStream's local toolCalls
  resp,           \* the response the transport is delivering
  pending,        \* the part of its content not delivered yet
  inflight,       \* the tool calls handed to executeToolCalls and awaited
  plan,           \* the retrieval plan of the semantic pipeline
  ranPipeline,    \* what runSemanticPipeline returned
  uuids,          \* how many ids were made so far
  events,         \* what the collaborators saw of this invocation, in order
  forwarded,      \* the content chunks of the current model call, concatenated
  late,           \* the calls of collaborators started while the signal was aborted
  issuedUsage,    \* the usage the transport reported in this invocation
  idleRounds,     \* round-loop iterations that neither returned nor dispatched
  result,         \* the AgentResults this Agent has returned, the latest first
  invocation      \* how many invocations this Agent has started

vars ==
  <<capture, cfg, tools, messages, toolsUsed, toolRounds, totalUsage, aborted, mode, userMessage,
    pc, finalContent, parser, toolCalls, resp, pending, inflight, plan,
    ranPipeline, uuids, events, late, forwarded, issuedUsage, idleRounds, result,
    invocation>>

\* Variable groups for UNCHANGED.
agentVars == <<messages, toolsUsed, toolRounds, totalUsage>>
streamVars == <<finalContent, parser, toolCalls, resp, pending, forwarded>>
callVars == <<tools, inflight, plan, ranPipeline, uuids>>

NoPlan == [query |-> "", top_k |-> 0, candidate_limit |-> 0]
NoResp == [content |-> <<>>, tool_calls |-> NoCalls, finishReason |-> "stop", usage |-> NoUsage]

\* No call of captureAsImageData has been made.
NoCapture == [pc |-> "none"]

\* The state after "new Agent(context, config, historyMessages, ...)".
Init ==
  /\ capture = NoCapture
  /\ cfg \in Configs
  /\ tools = FALSE
  /\ messages = <<>>
  /\ toolsUsed = <<>>
  /\ toolRounds = 0
  /\ totalUsage = ZeroUsage
  /\ aborted = FALSE
  /\ mode = "none"
  /\ userMessage = DateQuestion
  /\ pc = "idle"
  /\ finalContent = <<>>
  /\ parser = ParserInit
  /\ toolCalls = NoCalls
  /\ resp = NoResp
  /\ pending = <<>>
  /\ inflight = <<>>
  /\ plan = NoPlan
  /\ ranPipeline = FALSE
  /\ uuids = 0
  /\ events = <<>>
  /\ late = {}
  /\ forwarded = <<>>
  /\ issuedUsage = ZeroUsage
  /\ idleRounds = 0
  /\ result = <<>>
  /\ invocation = 0

\* ------------------------------------------------------------------ helpers
\* Agent.isAborted
isAborted == aborted

\* Agent.addUsage: a missing record is a no-op.
addUsage(total, usage) ==
  IF usage.present
  THEN [promptTokens |-> total.promptTokens + usage.promptTokens,
        completionTokens |-> total.completionTokens + usage.completionTokens,
        totalTokens |-> total.totalTokens + usage.totalTokens]
  ELSE total

\* The usage a transport response reports, as a plain record (zero when none).
Reported(total, usage) ==
  [promptTokens |-> total.promptTokens + usage.promptTokens,
   completionTokens |-> total.completionTokens + usage.completionTokens,
   totalTokens |-> total.totalTokens + usage.totalTokens]

\* One observation: a chunk handed to onChunk (content, tool_start,
\* tool_result, done, error), a call of the model transport (model_call) or a
\* batch handed to executeToolCalls (dispatch).
Event(type, what, withTools, usage) ==
  [type |-> type, what |-> what, tools |-> withTools, usage |-> usage]

ModelCall(what, withTools) == Event("model_call", what, withTools, ZeroUsage)
Dispatch(calls) == Event("dispatch", calls, FALSE, ZeroUsage)
\* A terminal chunk that reports a failure.
ErrorChunk(usage) == Event("error", "", FALSE, usage)

DoneChunk(usage) == Event("done", "", FALSE, usage)
ToolStart(name) == Event("tool_start", name, FALSE, ZeroUsage)
ToolResult(name) == Event("tool_result", name, FALSE, ZeroUsage)
ContentChunk == Event("content", "", FALSE, ZeroUsage)

\* A call of a collaborator starts: it is noted when the signal is aborted.
Started(kind) == IF aborted THEN late \cup {kind} ELSE late

\* onChunk is only there in executeStream.
Chunks(cs) == IF mode = "executeStream" THEN cs ELSE <<>>

\* The log with the chunks cs added.  A run of content chunks is logged as one
\* content event: how a text was cut into chunks is not kept.
RECURSIVE Emit(_, _)
Emit(log, cs) ==
  IF cs = <<>> THEN log
  ELSE IF cs[1].type = "content" /\ log # <<>> /\ log[Len(log)].type = "content"
    THEN Emit(log, Tail(cs))
  ELSE Emit(Append(log, cs[1]), Tail(cs))

\* The content chunks out, as chunks.
RECURSIVE ContentEvents(_)
ContentEvents(out) ==
  IF out = <<>> THEN <<>> ELSE <<ContentChunk>> \o ContentEvents(Tail(out))

RECURSIVE Flatten(_)
Flatten(out) == IF out = <<>> THEN <<>> ELSE out[1] \o Flatten(Tail(out))

\* The AgentResult an invocation returns.
AgentResult(content, used, rounds, usage) ==
  [content |-> content, toolsUsed |-> used, toolRounds |-> rounds, totalUsage |-> usage]

\* ------------------------------------------------------------------ entry points
\* The first lines of execute and executeStream: the early return of an aborted
\* signal, then the reset of the transcript and the counters.
Begin(m, question) ==
  /\ invocation' = invocation + 1
  /\ mode' = m
  /\ userMessage' = question
  /\ issuedUsage' = ZeroUsage
  /\ idleRounds' = 0
  /\ forwarded' = <<>>
  /\ finalContent' = <<>>
  /\ parser' = ParserInit
  /\ toolCalls' = NoCalls
  /\ resp' = NoResp
  /\ pending' = <<>>
  /\ inflight' = <<>>
  /\ plan' = NoPlan
  /\ ranPipeline' = FALSE
  /\ tools' = FALSE
  /\ late' = {}
  /\ UNCHANGED <<capture, cfg, aborted, totalUsage, uuids>>
  /\ IF isAborted
     THEN /\ events' = IF m = "executeStream" THEN <<DoneChunk(totalUsage)>> ELSE <<>>
          /\ result' = <<AgentResult(<<>>, <<>>, 0, totalUsage)>> \o result
          /\ pc' = "returned"
          /\ UNCHANGED <<messages, toolsUsed, toolRounds>>
     ELSE /\ events' = <<>>
          /\ result' = result
          /\ messages' = <<Message("system", "prompt")>> \o cfg.historyMessages
                           \o <<Message("user", "question")>>
          /\ toolsUsed' = <<>>
          /\ toolRounds' = 0
          /\ pc' = "tools"

\* The first invocation of a new Agent.
Execute == pc = "idle" /\ \E question \in UserMessages : Begin("execute", question)

ExecuteStream ==
  pc = "idle" /\ \E question \in UserMessages : Begin("executeStream", question)

\* A later invocation of the same Agent, after the one before has settled.
Settled == pc \in {"returned", "threw"}

ExecuteAgain ==
  /\ Settled
  /\ invocation < MaxInvocations
  /\ \E question \in UserMessages : Begin("execute", question)

ExecuteStreamAgain ==
  /\ Settled
  /\ invocation < MaxInvocations
  /\ \E question \in UserMessages : Begin("executeStream", question)

\* An invocation returns r; in executeStream the chunks cs go out first.
Return(cs, r) ==
  /\ events' = Emit(events, Chunks(cs))
  /\ result' = <<r>> \o result
  /\ pc' = "returned"

\* ------------------------------------------------------------------ semantic pipeline
\* An embedding model that is read without being trimmed.
getEmbeddingModelUntrimmed(embeddingModel) == embeddingModel

\* Agent.getEmbeddingModel: the trimmed embedding model, <<>> for null.
getEmbeddingModel(embeddingModel) == Trim(embeddingModel)

\* What the rewrite call comes back with: it throws, it answers with text that
\* holds no JSON object, or it answers with a JSON object whose fields may be
\* missing (hasQuery, hasTopK, hasLimit).
RewriteOutputs ==
  { [kind |-> "throw", hasQuery |-> FALSE, hasTopK |-> FALSE, top_k |-> 0,
     hasLimit |-> FALSE, candidate_limit |-> 0, usage |-> NoUsage],
    [kind |-> "text", hasQuery |-> FALSE, hasTopK |-> FALSE, top_k |-> 0,
     hasLimit |-> FALSE, candidate_limit |-> 0, usage |-> SomeUsage],
    [kind |-> "json", hasQuery |-> TRUE, hasTopK |-> TRUE, top_k |-> 8,
     hasLimit |-> TRUE, candidate_limit |-> 300, usage |-> SomeUsage],
    [kind |-> "json", hasQuery |-> FALSE, hasTopK |-> TRUE, top_k |-> 0,
     hasLimit |-> TRUE, candidate_limit |-> 1000, usage |-> NoUsage],
    [kind |-> "json", hasQuery |-> TRUE, hasTopK |-> TRUE, top_k |-> 100,
     hasLimit |-> TRUE, candidate_limit |-> 5, usage |-> SomeUsage] }

Max(a, b) == IF a > b THEN a ELSE b
Min(a, b) == IF a < b THEN a ELSE b

\* A plan that takes the numbers of the rewrite output as they are.
ResolvePlanUnclamped(out, maxMessagesLimit) ==
  LET json == out.kind = "json"
  IN [query |-> IF json /\ out.hasQuery THEN "rewritten" ELSE userMessage.text,
      top_k |-> IF json /\ out.hasTopK THEN out.top_k ELSE 5,
      candidate_limit |-> IF json /\ out.hasLimit THEN out.candidate_limit ELSE 200]

\* A plan whose defaults are the numbers of the legacy automatic search.
ResolvePlanLegacyDefaults(out, maxMessagesLimit) ==
  LET json == out.kind = "json"
      top_k == IF json /\ out.hasTopK THEN out.top_k ELSE 8
      candidate_limit == IF json /\ out.hasLimit THEN out.candidate_limit ELSE 200
      clamped == Max(20, Min(500, candidate_limit))
  IN [query |-> IF json /\ out.hasQuery THEN "rewritten" ELSE userMessage.text,
      top_k |-> Max(1, Min(50, top_k)),
      candidate_limit |->
        IF maxMessagesLimit # 0 THEN Min(clamped, maxMessagesLimit) ELSE clamped]

\* The retrieval plan runSemanticPipeline resolves from the rewrite output: the
\* defaults, the fields of the JSON object, the clamps and the message limit.
\* The forced call carries it as its arguments.
ResolvePlan(out, maxMessagesLimit) ==
  LET json == out.kind = "json"
      top_k == IF json /\ out.hasTopK THEN out.top_k ELSE 5
      candidate_limit == IF json /\ out.hasLimit THEN out.candidate_limit ELSE 200
      clamped == Max(20, Min(500, candidate_limit))
  IN [query |-> IF json /\ out.hasQuery THEN "rewritten" ELSE userMessage.text,
      top_k |-> Max(1, Min(50, top_k)),
      candidate_limit |->
        IF maxMessagesLimit # 0 THEN Min(clamped, maxMessagesLimit) ELSE clamped]

\* The first lines of runSemanticPipeline, when the active configuration holds
\* embeddingModel: it returns false when that is no model, and calls the model
\* for the rewrite otherwise.
runSemanticPipeline(embeddingModel) ==
  IF getEmbeddingModel(embeddingModel) = <<>>
  THEN /\ ranPipeline' = FALSE
       /\ pc' = "afterPipeline"
       /\ UNCHANGED <<events, late>>
  ELSE /\ events' = Append(events, ModelCall("rewrite", FALSE))
       /\ late' = Started("rewrite call")
       /\ pc' = "rewrite"
       /\ UNCHANGED ranPipeline

\* getAllToolDefinitions resolves, and runSemanticPipeline starts.
GetTools ==
  /\ pc = "tools"
  /\ tools' \in BOOLEAN
  /\ \E embeddingModel \in EmbeddingModels : runSemanticPipeline(embeddingModel)
  /\ UNCHANGED <<capture, cfg, agentVars, aborted, mode, userMessage, streamVars, inflight,
                 plan, uuids, issuedUsage, idleRounds, result, invocation>>

\* The rewrite call settles: the usage is added, the plan is resolved, and the
\* forced semantic_search_messages call is dispatched if the catalog has the tool.
RewriteSettles(out, maxMessagesLimit) ==
  /\ totalUsage' = addUsage(totalUsage, out.usage)
  /\ issuedUsage' = Reported(issuedUsage, out.usage)
  /\ plan' = ResolvePlan(out, maxMessagesLimit)
  /\ IF ~tools
     THEN /\ ranPipeline' = FALSE
          /\ pc' = "afterPipeline"
          /\ UNCHANGED <<events, inflight, uuids, late>>
     ELSE LET forced == <<ToolCall(<<"semantic", uuids>>, "semantic_search_messages", "plan")>>
          IN /\ events' = Append(Emit(events, Chunks(<<ToolStart("semantic_search_messages")>>)),
                                 Dispatch(forced))
             /\ late' = Started("pipeline dispatch")
             /\ inflight' = forced
             /\ uuids' = uuids + 1
             /\ pc' = "pipeExec"
             /\ UNCHANGED ranPipeline

RewriteReturns ==
  /\ pc = "rewrite"
  /\ \E out \in RewriteOutputs : \E maxMessagesLimit \in MessageLimits :
       RewriteSettles(out, maxMessagesLimit)
  /\ UNCHANGED <<capture, cfg, tools, messages, toolsUsed, toolRounds, aborted, mode,
                 userMessage, streamVars, idleRounds, result, invocation>>

\* The index (1-based) at which the evidence message is spliced in: before the
\* last user message, or at the end when there is none.
RECURSIVE LastIndexOfRole(_, _, _)
LastIndexOfRole(ms, role, i) ==
  IF i = 0 THEN 0
  ELSE IF ms[i].role = role THEN i
  ELSE LastIndexOfRole(ms, role, i - 1)

InsertAt(ms, i, m) == SubSeq(ms, 1, i - 1) \o <<m>> \o SubSeq(ms, i, Len(ms))

\* An injection that puts the evidence at the end of the transcript.
InjectEvidenceAtTail(ms) == Append(ms, Message("system", "evidence"))

InjectEvidence(ms) ==
  LET lastUser == LastIndexOfRole(ms, "user", Len(ms))
  IN IF lastUser = 0 THEN Append(ms, Message("system", "evidence"))
     ELSE InsertAt(ms, lastUser, Message("system", "evidence"))

\* A pipeline that records the forced call without its result.
PipelineTranscriptWithoutResult(ms, calls, first) ==
  IF first = "ok" THEN InjectEvidence(Append(ms, AssistantMessage(calls)))
  ELSE Append(ms, AssistantMessage(calls))

\* The transcript runSemanticPipeline leaves when the forced calls came back
\* with first: the assistant/tool pair, and the evidence when the retrieval
\* succeeded with a result.
PipelineTranscript(ms, calls, first) ==
  LET pair == <<AssistantMessage(calls),
                ToolMessage(IF first = "error" THEN "error" ELSE "result", calls[1].id)>>
  IN IF first = "ok" THEN InjectEvidence(ms \o pair) ELSE ms \o pair

\* The forced call settles: the assistant/tool pair is written to the
\* transcript, the tool is recorded, and the evidence is injected when the
\* retrieval succeeded with a result.
PipelineToolReturns ==
  /\ pc = "pipeExec"
  /\ \E first \in PipelineOutcomes :
       messages' = PipelineTranscript(messages, inflight, first)
  /\ events' = Emit(events, Chunks(<<ToolResult("semantic_search_messages")>>))
  /\ toolsUsed' = Append(toolsUsed, "semantic_search_messages")
  /\ ranPipeline' = TRUE
  /\ inflight' = <<>>
  /\ plan' = NoPlan
  /\ pc' = "afterPipeline"
  /\ UNCHANGED <<capture, cfg, tools, toolRounds, totalUsage, aborted, mode, userMessage,
                 streamVars, uuids, issuedUsage, idleRounds, result, invocation, late>>

\* ------------------------------------------------------------------ legacy automatic search
\* Agent.shouldAutoSemanticSearch
shouldAutoSemanticSearch(question) ==
  IF question.length = 0 THEN FALSE
  ELSE IF question.namesTool THEN FALSE
  ELSE IF question.trigger THEN TRUE
  ELSE question.length >= 15

\* The retrieval steps are over and the round loop starts.  The question and
\* the catalog are not read by anything the loop is modelled to do, and are
\* not kept.
EnterLoop ==
  /\ pc' = "loop"
  /\ userMessage' = DateQuestion
  /\ tools' = FALSE

\* After runSemanticPipeline: the legacy search runs when the pipeline did not.
AfterPipeline ==
  /\ pc = "afterPipeline"
  /\ IF ~ranPipeline /\ shouldAutoSemanticSearch(userMessage)
     THEN pc' = "autoTools" /\ UNCHANGED <<userMessage, tools>>
     ELSE EnterLoop
  /\ plan' = NoPlan
  /\ UNCHANGED <<capture, cfg, agentVars, aborted, mode, streamVars,
                 inflight, ranPipeline, uuids, events, issuedUsage, idleRounds, result,
                 invocation, late>>

\* runAutoSemanticSearch, after its getAllToolDefinitions: null without the
\* tool, and otherwise one semantic_search_messages call is dispatched.
AutoSearchStarts ==
  /\ pc = "autoTools"
  /\ IF ~tools
     THEN /\ EnterLoop
          /\ UNCHANGED <<events, inflight, uuids, late>>
     ELSE LET auto == <<ToolCall(<<"auto", uuids>>, "semantic_search_messages", "auto")>>
          IN /\ events' = Append(events, Dispatch(auto))
             /\ late' = Started("automatic dispatch")
             /\ inflight' = auto
             /\ uuids' = uuids + 1
             /\ pc' = "autoExec"
             /\ UNCHANGED <<userMessage, tools>>
  /\ UNCHANGED <<capture, cfg, agentVars, aborted, mode, streamVars, plan,
                 ranPipeline, issuedUsage, idleRounds, result, invocation>>

\* Its call settles: evidence is spliced in before the last message when the
\* search succeeded with at least one item.
AutoSearchReturns ==
  /\ pc = "autoExec"
  /\ \E r0 \in PipelineOutcomes :
       messages' = IF r0 = "ok"
                   THEN InsertAt(messages, Len(messages), Message("system", "autoEvidence"))
                   ELSE messages
  /\ inflight' = <<>>
  /\ EnterLoop
  /\ UNCHANGED <<capture, cfg, toolsUsed, toolRounds, totalUsage, aborted, mode,
                 streamVars, plan, ranPipeline, uuids, events, issuedUsage,
                 idleRounds, result, invocation, late>>

\* ------------------------------------------------------------------ round loop
\* A loop that goes round once more when the budget is already reached.
LoopContinuesAtBudget == toolRounds <= cfg.maxToolRounds

\* The condition of "while (this.toolRounds < maxToolRounds)".
LoopContinues == toolRounds < cfg.maxToolRounds

\* The model transport is called for one round, with the tool schemas.  In
\* executeStream the locals of the streaming call start afresh, and the
\* response whose deltas will arrive is fixed here.
CallModelForRound ==
  /\ events' = Append(events, ModelCall("round", TRUE))
  /\ late' = Started("round call")
  /\ IF mode = "execute"
     THEN /\ pc' = "chat"
          /\ UNCHANGED streamVars
     ELSE /\ pc' = "stream"
          /\ parser' = ParserInit
          /\ toolCalls' = NoCalls
          /\ forwarded' = <<>>
          /\ \E r \in Responses(uuids) : resp' = r /\ pending' = r.content
          /\ UNCHANGED finalContent
  /\ UNCHANGED <<messages, result>>

\* A last call that still hands the tool schemas to the model.
CallModelAtLastWithTools ==
  /\ messages' = Append(messages, Message("user", "instruction"))
  /\ events' = Append(events, ModelCall("final", TRUE))
  /\ late' = Started("final call")
  /\ IF mode = "execute"
     THEN /\ pc' = "finalChat"
          /\ UNCHANGED streamVars
     ELSE /\ pc' = "finalStream"
          /\ forwarded' = <<>>
          /\ \E r \in FinalResponses : resp' = r /\ pending' = r.content
          /\ UNCHANGED <<finalContent, parser, toolCalls>>
  /\ UNCHANGED result

\* The budget is used up: the instruction not to call tools is appended and the
\* model is called once more, without tool schemas.
CallModelAtLast ==
  /\ messages' = Append(messages, Message("user", "instruction"))
  /\ events' = Append(events, ModelCall("final", FALSE))
  /\ late' = Started("final call")
  /\ IF mode = "execute"
     THEN /\ pc' = "finalChat"
          /\ UNCHANGED streamVars
     ELSE /\ pc' = "finalStream"
          /\ forwarded' = <<>>
          /\ \E r \in FinalResponses : resp' = r /\ pending' = r.content
          /\ UNCHANGED <<finalContent, parser, toolCalls>>
  /\ UNCHANGED result

\* The top of the while loop, and what follows the loop when its condition fails.
LoopTop ==
  /\ pc = "loop"
  /\ IF LoopContinues
     THEN IF isAborted
          THEN /\ Return(<<DoneChunk(totalUsage)>>,
                         AgentResult(IF mode = "execute" THEN <<>> ELSE finalContent,
                                     toolsUsed, toolRounds, totalUsage))
               /\ UNCHANGED <<messages, streamVars, late>>
          ELSE CallModelForRound
     ELSE IF mode = "executeStream" /\ isAborted
          THEN /\ Return(<<DoneChunk(totalUsage)>>,
                         AgentResult(finalContent, toolsUsed, toolRounds, totalUsage))
               /\ UNCHANGED <<messages, streamVars, late>>
          ELSE CallModelAtLast
  /\ UNCHANGED <<capture, cfg, toolsUsed, toolRounds, totalUsage, aborted, mode, userMessage,
                 callVars, issuedUsage, idleRounds, invocation>>

\* A dispatch that leaves the assistant message of the round out of the
\* transcript.
HandleToolCallsWithoutMessage(calls, starts) ==
  /\ messages' = messages
  /\ events' = Append(Emit(events, Chunks(starts)), Dispatch(calls))
  /\ late' = Started("round dispatch")
  /\ inflight' = calls
  /\ pc' = "toolExec"

\* Agent.handleToolCalls up to its await: the assistant message carrying the
\* calls is appended and the batch is handed to executeToolCalls.  starts are
\* the tool_start chunks executeStream sends just before.
HandleToolCalls(calls, starts) ==
  /\ messages' = Append(messages, AssistantMessage(calls))
  /\ events' = Append(Emit(events, Chunks(starts)), Dispatch(calls))
  /\ late' = Started("round dispatch")
  /\ inflight' = calls
  /\ pc' = "toolExec"

\* A decision that never looks for tool-call markup in the text.
ExecuteDecisionWithoutFallback(r, seed) ==
  IF r.finishReason # "tool_calls" \/ ~r.tool_calls.present
  THEN [use |-> FALSE, calls |-> <<>>, content |-> extractThinkingContent(r.content)]
  ELSE [use |-> TRUE, calls |-> r.tool_calls.calls, content |-> <<>>]

\* A decision that looks for tool-call markup in the text before it looks at
\* the native calls.
ExecuteDecisionMarkupFirst(r, seed) ==
  IF Len(parseToolCallTags(r.content, seed)) > 0
  THEN [use |-> TRUE, calls |-> parseToolCallTags(r.content, seed), content |-> <<>>]
  ELSE IF r.finishReason # "tool_calls" \/ ~r.tool_calls.present
       THEN [use |-> FALSE, calls |-> <<>>,
             content |-> IF hasToolCallTags(r.content)
                         THEN extractThinkingContent(r.content)
                         ELSE r.content]
       ELSE [use |-> TRUE, calls |-> r.tool_calls.calls, content |-> <<>>]

\* The tool calls execute takes from a response: <<>> stands for "none, the
\* response is the final answer"; use says whether there are calls to process.
\* Native calls are taken when the finish reason is tool_calls and the list is
\* there; otherwise the text is searched for tool-call markup.
ExecuteDecision(r, seed) ==
  IF r.finishReason # "tool_calls" \/ ~r.tool_calls.present
  THEN IF hasToolCallTags(r.content)
       THEN LET fallbackToolCalls == parseToolCallTags(r.content, seed)
            IN IF Len(fallbackToolCalls) > 0
               THEN [use |-> TRUE, calls |-> fallbackToolCalls, content |-> <<>>]
               ELSE [use |-> FALSE, calls |-> <<>>,
                     content |-> extractThinkingContent(r.content)]
       ELSE [use |-> FALSE, calls |-> <<>>, content |-> r.content]
  ELSE [use |-> TRUE, calls |-> r.tool_calls.calls, content |-> <<>>]

\* execute: the chat call of a round settles with the response r, which resp
\* keeps until the iteration ends.
ChatReturns ==
  /\ pc = "chat"
  /\ \E r \in Responses(uuids) :
       LET d == ExecuteDecision(r, uuids)
       IN /\ totalUsage' = addUsage(totalUsage, r.usage)
          /\ issuedUsage' = Reported(issuedUsage, r.usage)
          /\ resp' = r
          /\ IF d.use
             THEN /\ HandleToolCalls(d.calls, <<>>)
                  /\ uuids' = uuids + Len(d.calls)
                  /\ UNCHANGED result
             ELSE /\ Return(<<>>, AgentResult(d.content, toolsUsed, toolRounds,
                                             addUsage(totalUsage, r.usage)))
                  /\ UNCHANGED <<messages, inflight, uuids, late>>
  /\ UNCHANGED <<capture, cfg, tools, toolsUsed, toolRounds, aborted, mode, userMessage,
                 finalContent, parser, toolCalls, pending, forwarded, plan,
                 ranPipeline, idleRounds, invocation>>

\* A tool message that says success whatever the result was.
ResultMessageAlwaysResult(call, outcome) == ToolMessage("result", call.id)

\* The tool message of one result.
ResultMessage(call, outcome) ==
  ToolMessage(IF outcome = "ok" THEN "result" ELSE "error", call.id)

RECURSIVE ResultMessages(_, _)
ResultMessages(calls, outcomes) ==
  IF calls = <<>> THEN <<>>
  ELSE <<ResultMessage(calls[1], outcomes[1])>>
         \o ResultMessages(Tail(calls), Tail(outcomes))

RECURSIVE Names(_)
Names(calls) == IF calls = <<>> THEN <<>> ELSE <<calls[1].name>> \o Names(Tail(calls))

RECURSIVE ResultChunks(_)
ResultChunks(calls) ==
  IF calls = <<>> THEN <<>>
  ELSE <<ToolResult(calls[1].name)>> \o ResultChunks(Tail(calls))

\* The locals of one iteration of executeStream's loop end with the iteration.
IterationEnds ==
  /\ parser' = ParserInit
  /\ toolCalls' = NoCalls
  /\ resp' = NoResp
  /\ pending' = <<>>
  /\ forwarded' = <<>>
  /\ UNCHANGED finalContent

\* The rounds counted after handleToolCalls returns.
CountRound(rounds) == rounds + 1

\* executeToolCalls settles: handleToolCalls records each call, reports its
\* result and appends its tool message, in call order; the round is counted.
ToolsReturn ==
  /\ pc = "toolExec"
  /\ \E outcomes \in OutcomeLists(Len(inflight)) :
       messages' = messages \o ResultMessages(inflight, outcomes)
  /\ toolsUsed' = toolsUsed \o Names(inflight)
  /\ events' = Emit(events, Chunks(ResultChunks(inflight)))
  /\ toolRounds' = CountRound(toolRounds)
  /\ inflight' = <<>>
  /\ pc' = "loop"
  /\ IterationEnds
  /\ UNCHANGED <<capture, cfg, tools, totalUsage, aborted, mode, userMessage, plan,
                 ranPipeline, uuids, issuedUsage, idleRounds, result, invocation, late>>

\* execute: the last chat call settles and its content is the answer.  resp
\* keeps the response.
FinalChatReturns ==
  /\ pc = "finalChat"
  /\ \E r \in FinalResponses :
       /\ totalUsage' = addUsage(totalUsage, r.usage)
       /\ issuedUsage' = Reported(issuedUsage, r.usage)
       /\ Return(<<>>, AgentResult(r.content, toolsUsed, toolRounds,
                                   addUsage(totalUsage, r.usage)))
       /\ resp' = r
  /\ UNCHANGED <<capture, cfg, messages, toolsUsed, toolRounds, aborted, mode, userMessage,
                 finalContent, parser, toolCalls, pending, forwarded, callVars,
                 idleRounds, invocation, late>>

\* ------------------------------------------------------------------ streaming rounds
\* executeStream: a chunk with a content fragment arrives.
StreamDelta ==
  /\ pc = "stream"
  /\ pending # <<>>
  /\ \E k \in 1..Len(pending) :
       IF isAborted
       THEN /\ Return(<<DoneChunk(totalUsage)>>,
                      AgentResult(finalContent \o parser.accumulatedContent,
                                  toolsUsed, toolRounds, totalUsage))
            /\ UNCHANGED <<parser, forwarded, pending>>
       ELSE LET nx == ParserStep(parser, SubSeq(pending, 1, k))
            IN /\ parser' = [nx EXCEPT !.out = <<>>]
               /\ forwarded' = forwarded \o Flatten(nx.out)
               /\ events' = Emit(events, ContentEvents(nx.out))
               /\ pending' = SubSeq(pending, k + 1, Len(pending))
               /\ UNCHANGED <<result, pc>>
  /\ UNCHANGED <<capture, cfg, agentVars, aborted, mode, userMessage, finalContent, toolCalls,
                 resp, callVars, issuedUsage, idleRounds, invocation, late>>

\* A decision that answers with the whole buffer when no block of the markup
\* parses.
StreamDecisionUnstripped(acc, shown, finishReason, noted, seed) ==
  IF finishReason # "tool_calls" \/ ~noted.present
  THEN IF hasToolCallTags(acc)
       THEN LET cleanContent == extractThinkingContent(acc)
                fallbackToolCalls == parseToolCallTags(acc, seed)
            IN IF Len(fallbackToolCalls) > 0
               THEN [verdict |-> "tools",
                     toolCalls |-> [present |-> TRUE, calls |-> fallbackToolCalls],
                     accumulatedContent |-> StripToolCalls(cleanContent),
                     content |-> <<>>, tail |-> <<>>]
               ELSE [verdict |-> "answer", toolCalls |-> noted,
                     accumulatedContent |-> acc,
                     content |-> acc,
                     tail |-> SliceFrom(acc, Len(shown))]
       ELSE [verdict |-> "answer", toolCalls |-> noted, accumulatedContent |-> acc,
             content |-> extractThinkingContent(acc), tail |-> <<>>]
  ELSE [verdict |-> "tools", toolCalls |-> noted, accumulatedContent |-> acc,
        content |-> <<>>, tail |-> <<>>]

\* What executeStream does with the completion chunk once its tool calls are
\* noted: verdict "answer" ends the execution with content as the answer and
\* tail as a last content chunk, verdict "tools" goes on to the dispatch of calls.
StreamDecision(acc, shown, finishReason, noted, seed) ==
  IF finishReason # "tool_calls" \/ ~noted.present
  THEN IF hasToolCallTags(acc)
       THEN LET cleanContent == extractThinkingContent(acc)
                fallbackToolCalls == parseToolCallTags(acc, seed)
            IN IF Len(fallbackToolCalls) > 0
               THEN [verdict |-> "tools",
                     toolCalls |-> [present |-> TRUE, calls |-> fallbackToolCalls],
                     accumulatedContent |-> StripToolCalls(cleanContent),
                     content |-> <<>>, tail |-> <<>>]
               ELSE [verdict |-> "answer", toolCalls |-> noted,
                     accumulatedContent |-> acc,
                     content |-> cleanContent,
                     tail |-> SliceFrom(cleanContent, Len(shown))]
       ELSE [verdict |-> "answer", toolCalls |-> noted, accumulatedContent |-> acc,
             content |-> extractThinkingContent(acc), tail |-> <<>>]
  ELSE [verdict |-> "tools", toolCalls |-> noted, accumulatedContent |-> acc,
        content |-> <<>>, tail |-> <<>>]

\* executeStream: the completion chunk arrives, with the tool calls, the usage
\* and the finish reason.
StreamFinish ==
  /\ pc = "stream"
  /\ pending = <<>>
  /\ issuedUsage' = Reported(issuedUsage, resp.usage)
  /\ IF isAborted
     THEN /\ Return(<<DoneChunk(totalUsage)>>,
                    AgentResult(finalContent \o parser.accumulatedContent,
                                toolsUsed, toolRounds, totalUsage))
          /\ UNCHANGED <<totalUsage, finalContent, parser, toolCalls, forwarded, uuids>>
     ELSE LET noted == IF resp.tool_calls.present THEN resp.tool_calls ELSE toolCalls
              usage == addUsage(totalUsage, resp.usage)
              d == StreamDecision(parser.accumulatedContent, parser.displayedContent,
                                  resp.finishReason, noted, uuids)
          IN /\ totalUsage' = usage
             /\ toolCalls' = d.toolCalls
             /\ parser' = [parser EXCEPT !.accumulatedContent = d.accumulatedContent]
             /\ uuids' = uuids + Len(d.toolCalls.calls)
             /\ IF d.verdict = "answer"
                THEN /\ Return((IF d.tail # <<>> THEN <<ContentChunk>> ELSE <<>>)
                                 \o <<DoneChunk(usage)>>,
                               AgentResult(d.content, toolsUsed, toolRounds, usage))
                     /\ finalContent' = d.content
                     /\ forwarded' = forwarded \o d.tail
                ELSE /\ pc' = "streamTail"
                     /\ UNCHANGED <<events, result, finalContent, forwarded>>
  /\ UNCHANGED <<capture, cfg, tools, messages, toolsUsed, toolRounds, aborted, mode,
                 userMessage, resp, pending, inflight, plan, ranPipeline, idleRounds,
                 invocation, late>>

\* An announcement of the first call of a batch only.
StartChunksFirstOnly(calls) ==
  IF calls = <<>> THEN <<>> ELSE <<ToolStart(calls[1].name)>>

RECURSIVE StartChunks(_)
StartChunks(calls) ==
  IF calls = <<>> THEN <<>>
  ELSE <<ToolStart(calls[1].name)>> \o StartChunks(Tail(calls))

\* executeStream: the stream ends after its completion chunk.  The calls noted
\* are announced and dispatched; with no call the loop starts over.
StreamEnd ==
  /\ pc = "streamTail"
  /\ IF toolCalls.present /\ Len(toolCalls.calls) > 0
     THEN /\ HandleToolCalls(toolCalls.calls, StartChunks(toolCalls.calls))
          /\ UNCHANGED <<idleRounds, streamVars>>
     ELSE /\ idleRounds < MaxIdleRounds
          /\ idleRounds' = idleRounds + 1
          /\ pc' = "loop"
          /\ IterationEnds
          /\ UNCHANGED <<messages, events, inflight, late>>
  /\ UNCHANGED <<capture, cfg, tools, toolsUsed, toolRounds, totalUsage, aborted, mode,
                 userMessage, plan, ranPipeline, uuids, issuedUsage, result,
                 invocation>>

\* executeStream, last call: a chunk with a content fragment arrives.
FinalDelta ==
  /\ pc = "finalStream"
  /\ pending # <<>>
  /\ \E k \in 1..Len(pending) :
       IF isAborted
       THEN /\ Return(<<DoneChunk(totalUsage)>>,
                      AgentResult(finalContent, toolsUsed, toolRounds, totalUsage))
            /\ UNCHANGED <<finalContent, forwarded, pending>>
       ELSE /\ finalContent' = finalContent \o SubSeq(pending, 1, k)
            /\ forwarded' = forwarded \o SubSeq(pending, 1, k)
            /\ events' = Emit(events, <<ContentChunk>>)
            /\ pending' = SubSeq(pending, k + 1, Len(pending))
            /\ UNCHANGED <<result, pc>>
  /\ UNCHANGED <<capture, cfg, agentVars, aborted, mode, userMessage, parser, toolCalls, resp,
                 callVars, issuedUsage, idleRounds, invocation, late>>

\* executeStream, last call: the completion chunk arrives.
FinalFinish ==
  /\ pc = "finalStream"
  /\ pending = <<>>
  /\ issuedUsage' = Reported(issuedUsage, resp.usage)
  /\ IF isAborted
     THEN /\ Return(<<DoneChunk(totalUsage)>>,
                    AgentResult(finalContent, toolsUsed, toolRounds, totalUsage))
          /\ UNCHANGED totalUsage
     ELSE /\ totalUsage' = addUsage(totalUsage, resp.usage)
          /\ events' = Emit(events, <<DoneChunk(addUsage(totalUsage, resp.usage))>>)
          /\ pc' = "finalTail"
          /\ UNCHANGED result
  /\ UNCHANGED <<capture, cfg, messages, toolsUsed, toolRounds, aborted, mode, userMessage,
                 streamVars, callVars, idleRounds, invocation, late>>

\* executeStream, last call: the stream ends and the result is returned.
FinalEnd ==
  /\ pc = "finalTail"
  /\ Return(<<>>, AgentResult(finalContent, toolsUsed, toolRounds, totalUsage))
  /\ UNCHANGED <<capture, cfg, agentVars, aborted, mode, userMessage, streamVars, callVars,
                 issuedUsage, idleRounds, invocation, late>>

\* ------------------------------------------------------------------ environment
\* The model transport fails: chat rejects, or the stream throws.  Neither
\* entry point catches it, so the invocation rejects and its locals are gone.
TransportFails ==
  /\ pc \in {"chat", "finalChat", "stream", "finalStream"}
  /\ pc' = "threw"
  /\ finalContent' = <<>>
  /\ parser' = ParserInit
  /\ toolCalls' = NoCalls
  /\ resp' = NoResp
  /\ pending' = <<>>
  /\ forwarded' = <<>>
  /\ UNCHANGED <<capture, cfg, agentVars, aborted, mode, userMessage, callVars, events,
                 issuedUsage, idleRounds, result, invocation, late>>

\* Where an invocation awaits a collaborator.
SuspensionPoints ==
  {"tools", "rewrite", "pipeExec", "autoTools", "autoExec", "chat", "toolExec",
   "stream", "streamTail", "finalChat", "finalStream", "finalTail"}

\* The caller aborts the signal, before an invocation or while it is suspended.
Abort ==
  /\ ~aborted
  /\ pc \in SuspensionPoints \cup {"idle"}
  /\ aborted' = TRUE
  /\ UNCHANGED <<capture, cfg, agentVars, mode, userMessage, pc, streamVars, callVars, events,
                 issuedUsage, idleRounds, result, invocation, late>>

Next ==
  \/ Execute
  \/ ExecuteStream
  \/ GetTools
  \/ RewriteReturns
  \/ PipelineToolReturns
  \/ AfterPipeline
  \/ AutoSearchStarts
  \/ AutoSearchReturns
  \/ LoopTop
  \/ ChatReturns
  \/ ToolsReturn
  \/ FinalChatReturns
  \/ StreamDelta
  \/ StreamFinish
  \/ StreamEnd
  \/ FinalDelta
  \/ FinalFinish
  \/ FinalEnd
  \/ TransportFails
  \/ Abort

Spec == Init /\ [][Next]_vars

\* The same Agent is invoked again after an invocation has settled.
NextReuse ==
  \/ Next
  \/ ExecuteAgain
  \/ ExecuteStreamAgain

SpecReuse == Init /\ [][NextReuse]_vars

\* ------------------------------------------------------------------ image capture
\* captureAsImageData(rootEl, options): the options read, as given by the
\* caller; set = FALSE is an option left out.
DefaultMaxExportWidth == 2160
MaxExportWidthOptions == {[set |-> FALSE, value |-> 0], [set |-> TRUE, value |-> 800]}
BackgroundOptions == {[set |-> FALSE, value |-> ""], [set |-> TRUE, value |-> "#ffffff"]}

\* rootEl.scrollWidth, the width the scale is computed from.
NarrowElement == 1000
WideElement == 4000
ElementWidths == {NarrowElement, WideElement}

\* getEffectiveBackground(rootEl): the first background colour up the tree
\* that is not transparent.
getEffectiveBackground == "rgb(17, 17, 17)"

\* Math.min(1, maxExportWidth / Math.max(1, elementWidth)) and then
\* Math.max(minScale, ...) with minScale 1, as a fraction <<n, d>>.
CaptureScale(maxExportWidth, elementWidth) ==
  LET width == IF elementWidth < 1 THEN 1 ELSE elementWidth
      fitted == IF maxExportWidth < width THEN <<maxExportWidth, width>> ELSE <<1, 1>>
  IN IF fitted[1] < fitted[2] THEN <<1, 1>> ELSE fitted

\* What result.toCanvas() settles with: it throws, it gives nothing, it gives
\* an object without toDataURL, or it gives a canvas of some width; getContext
\* of the output canvas may give null and drawing a tainted canvas throws.
SmallCanvas == 1000
LargeCanvas == 3000
CanvasOutcomes ==
  {[kind |-> "throws", width |-> 0, ctx |-> FALSE, tainted |-> FALSE],
   [kind |-> "null", width |-> 0, ctx |-> FALSE, tainted |-> FALSE],
   [kind |-> "noToDataURL", width |-> 0, ctx |-> FALSE, tainted |-> FALSE]}
  \cup [kind : {"canvas"}, width : {SmallCanvas, LargeCanvas}, ctx : BOOLEAN,
        tainted : BOOLEAN]

\* What result.toPng() settles with: it throws, or it gives an image element,
\* a Blob, a string, or something else.
PngOutcomes == {"throws", "image", "blob", "string", "other"}

\* What the FileReader does with the Blob, and what result.toImg() settles with.
ReaderOutcomes == {"load", "error"}
ImgOutcomes == {"throws", "image"}

\* The data URL returned: the path it came from, the expression that gave it,
\* and on the canvas path the width of the output canvas and its fill colour.
ImageData(path, from, width, fill) ==
  [path |-> path, from |-> from, width |-> width, fill |-> fill]
NoData == ImageData("none", "", 0, "")

\* The width of the output canvas: srcCanvas.width * scale2, rounded.
OutWidth(srcWidth, maxExportWidth) ==
  IF srcWidth > maxExportWidth THEN maxExportWidth ELSE srcWidth

\* The variables of the Agent, which a capture does not touch.
agentState ==
  <<cfg, tools, messages, toolsUsed, toolRounds, totalUsage, aborted, mode, userMessage,
    pc, finalContent, parser, toolCalls, resp, pending, inflight, plan,
    ranPipeline, uuids, events, late, forwarded, issuedUsage, idleRounds, result,
    invocation>>

\* captureAsImageData is called: the options are read, the scale is computed
\* and snapdom is awaited.
CaptureStarts ==
  /\ capture.pc = "idle"
  /\ capture' = [capture EXCEPT
       !.pc = "snapdom",
       !.maxExportWidth = IF capture.options.maxExportWidth.set
                          THEN capture.options.maxExportWidth.value
                          ELSE DefaultMaxExportWidth,
       !.bgColor = IF capture.options.backgroundColor.set
                   THEN capture.options.backgroundColor.value
                   ELSE getEffectiveBackground,
       !.captureScale =
         CaptureScale(IF capture.options.maxExportWidth.set
                      THEN capture.options.maxExportWidth.value
                      ELSE DefaultMaxExportWidth,
                      capture.elementWidth)]
  /\ UNCHANGED agentState

\* snapdom settles: a rejection leaves the function, a result starts the
\* canvas path.
SnapdomSettles ==
  /\ capture.pc = "snapdom"
  /\ \E ok \in BOOLEAN :
       capture' = IF ok
                  THEN [capture EXCEPT !.pc = "toCanvas", !.tried = <<"canvas">>]
                  ELSE [capture EXCEPT !.pc = "threw", !.error = "snapdom"]
  /\ UNCHANGED agentState

\* The canvas path: a canvas with toDataURL and a 2d context is filled, drawn
\* and returned as a data URL; anything else, a throw included, falls through
\* to the PNG path.
ToCanvasSettles ==
  /\ capture.pc = "toCanvas"
  /\ \E canvas \in CanvasOutcomes :
       capture' =
         IF canvas.kind = "canvas" /\ canvas.ctx /\ ~canvas.tainted
         THEN [capture EXCEPT
                 !.pc = "returned",
                 !.data = ImageData("canvas", "toDataURL",
                                    OutWidth(canvas.width, capture.maxExportWidth),
                                    capture.bgColor)]
         ELSE [capture EXCEPT !.pc = "toPng", !.tried = Append(capture.tried, "png")]
  /\ UNCHANGED agentState

\* The PNG path: an image element's src or a string is returned, a Blob is
\* returned as the promise of its FileReader, and a throw or any other value
\* falls through to the image path.
ToPngSettles ==
  /\ capture.pc = "toPng"
  /\ \E png \in PngOutcomes :
       capture' =
         IF png \in {"image", "string"}
         THEN [capture EXCEPT
                 !.pc = "returned",
                 !.data = ImageData("png", IF png = "image" THEN "src" ELSE "string", 0, "")]
         ELSE IF png = "blob"
         THEN [capture EXCEPT !.pc = "reading"]
         ELSE [capture EXCEPT !.pc = "toImg", !.tried = Append(capture.tried, "img")]
  /\ UNCHANGED agentState

\* The FileReader of the PNG path settles the promise that was returned from
\* inside the try block: onload resolves it, onerror rejects it, and the
\* rejection is the function's.
ReaderSettles ==
  /\ capture.pc = "reading"
  /\ \E reader \in ReaderOutcomes :
       capture' =
         IF reader = "load"
         THEN [capture EXCEPT !.pc = "returned",
                              !.data = ImageData("png", "reader.result", 0, "")]
         ELSE [capture EXCEPT !.pc = "threw", !.error = "reader error"]
  /\ UNCHANGED agentState

\* The image path: the element's src is returned, a throw is logged and
\* replaced by the function's own error.
ToImgSettles ==
  /\ capture.pc = "toImg"
  /\ \E img \in ImgOutcomes :
       capture' =
         IF img = "image"
         THEN [capture EXCEPT !.pc = "returned", !.data = ImageData("img", "src", 0, "")]
         ELSE [capture EXCEPT !.pc = "threw", !.error = "Failed to capture image data"]
  /\ UNCHANGED agentState

\* A call of captureAsImageData about to be made, with its arguments.
InitCapture ==
  /\ capture \in
       [pc : {"idle"},
        options : [maxExportWidth : MaxExportWidthOptions,
                   backgroundColor : BackgroundOptions],
        elementWidth : ElementWidths,
        maxExportWidth : {0}, bgColor : {""}, captureScale : {<<0, 1>>},
        tried : {<<>>}, data : {NoData}, error : {""}]
  /\ cfg = [maxToolRounds |-> 0, historyMessages |-> <<>>]
  /\ tools = FALSE
  /\ messages = <<>>
  /\ toolsUsed = <<>>
  /\ toolRounds = 0
  /\ totalUsage = ZeroUsage
  /\ aborted = FALSE
  /\ mode = "none"
  /\ userMessage = DateQuestion
  /\ pc = "idle"
  /\ finalContent = <<>>
  /\ parser = ParserInit
  /\ toolCalls = NoCalls
  /\ resp = NoResp
  /\ pending = <<>>
  /\ inflight = <<>>
  /\ plan = NoPlan
  /\ ranPipeline = FALSE
  /\ uuids = 0
  /\ events = <<>>
  /\ late = {}
  /\ forwarded = <<>>
  /\ issuedUsage = ZeroUsage
  /\ idleRounds = 0
  /\ result = <<>>
  /\ invocation = 0

NextCapture ==
  \/ CaptureStarts
  \/ SnapdomSettles
  \/ ToCanvasSettles
  \/ ToPngSettles
  \/ ReaderSettles
  \/ ToImgSettles

SpecCapture == InitCapture /\ [][NextCapture]_vars

\* ------------------------------------------------------------------ properties
\* How often x occurs in the sequence s.
CountOf(s, x) == Cardinality({i \in 1..Len(s) : s[i] = x})

\* The chunks handed to onChunk, without the calls of collaborators.
ChunkTypes == {"content", "tool_start", "tool_result", "done", "error"}
ChunksOf(log) == SelectSeq(log, LAMBDA e : e.type \in ChunkTypes)

RoundCall == ModelCall("round", TRUE)
FinalCall == ModelCall("final", FALSE)
Instruction == Message("user", "instruction")

\* A text with every complete thinking span removed, and with every complete
\* thinking span and tool-call span removed.
RemoveThinkSpans(s) == RemoveMatches(s, AnyThinkOpen, AnyThinkClose)
Visible(s) == RemoveMatches(RemoveThinkSpans(s), AnyToolOpen, AnyToolClose)

\* The positions of s inside complete spans, and the tokens found only there.
SpanPositions(s, open, close) ==
  LET ms == Matches(s, open, close, 1)
  IN UNION { ms[k][1]..ms[k][2] : k \in DOMAIN ms }
HiddenPositions(s) ==
  SpanPositions(s, AnyThinkOpen, AnyThinkClose) \cup SpanPositions(s, AnyToolOpen, AnyToolClose)
HiddenTokens(s) ==
  { s[i] : i \in HiddenPositions(s) } \ { s[i] : i \in (1..Len(s)) \ HiddenPositions(s) }

\* Can a be had from b by deleting tokens?
RECURSIVE IsSubsequence(_, _)
IsSubsequence(a, b) ==
  IF a = <<>> THEN TRUE
  ELSE IF b = <<>> THEN FALSE
  ELSE IF a[1] = b[1] THEN IsSubsequence(Tail(a), Tail(b))
  ELSE IsSubsequence(a, Tail(b))

\* The part of the streamed response that has arrived.
Delivered == SubSeq(resp.content, 1, Len(resp.content) - Len(pending))

\* C1: in every state, and in every returned result, toolRounds is at most the
\* configured round budget, budget 0 included.
RoundsWithinBudget ==
  /\ toolRounds <= cfg.maxToolRounds
  /\ result # <<>> => result[1].toolRounds <= cfg.maxToolRounds

\* An invocation that used up a budget of at least one round has returned.
BudgetUsedUp ==
  /\ pc = "returned"
  /\ cfg.maxToolRounds > 0
  /\ result[1].toolRounds = cfg.maxToolRounds

\* C2: the totalUsage of the returned result, and of every done chunk, is the
\* sum of the usage of the model calls issued in the invocation.
ReturnedUsageIsSumOfCalls ==
  pc = "returned" =>
    /\ result[1].totalUsage = issuedUsage
    /\ \A i \in 1..Len(events) :
         events[i].type = "done" => events[i].usage = issuedUsage

\* execute has returned a response of the round loop as the answer.
ExecuteAnswered ==
  /\ mode = "execute"
  /\ pc = "returned"
  /\ resp # NoResp
  /\ events # <<>>
  /\ events[Len(events)] = RoundCall

\* C3: when execute takes a response without tool calls as the final answer,
\* the content it returns is the response text without its complete thinking
\* spans (compared up to surrounding whitespace), and toolRounds is 0 when
\* the response is the first one.
ExecuteAnswerIsStripped ==
  ExecuteAnswered =>
    /\ Trim(result[1].content) = Trim(RemoveThinkSpans(resp.content))
    /\ CountOf(events, RoundCall) = 1 => result[1].toolRounds = 0

\* A streaming call of the round loop has delivered its completion chunk
\* without the signal being aborted.
StreamCallOver ==
  /\ mode = "executeStream"
  /\ resp # NoResp
  /\ pending = <<>>
  /\ CountOf(events, FinalCall) = 0
  /\ \/ pc = "streamTail"
     \/ pc = "returned" /\ ~aborted

\* C4: whatever the split into deltas, the content chunks forwarded during one
\* streaming model call concatenate to the buffer without its thinking spans
\* and tool-call spans.
ForwardedIsVisibleText == StreamCallOver => forwarded = Visible(resp.content)

\* C5: within one streaming model call every character is forwarded at most
\* once and in buffer order: what was forwarded so far can be had from the
\* buffer by deleting characters.
ForwardedOnceInOrder ==
  (mode = "executeStream" /\ pc = "stream") => IsSubsequence(forwarded, Delivered)

\* C6: within one streaming model call nothing that lies inside a completed
\* thinking span or tool-call span of the buffer is forwarded.
HiddenTextNotForwarded ==
  (mode = "executeStream" /\ pc \in {"stream", "streamTail"}) =>
    \A i \in 1..Len(forwarded) : forwarded[i] \notin HiddenTokens(Delivered)

\* C7: when an executeStream invocation is over, the consumer has received
\* exactly one terminal chunk (done or error), and it is the last chunk.
OneTerminalChunkLast ==
  (mode = "executeStream" /\ pc \in {"returned", "threw"}) =>
    LET cs == ChunksOf(events)
    IN /\ cs # <<>>
       /\ cs[Len(cs)].type \in {"done", "error"}
       /\ \A i \in 1..(Len(cs) - 1) : cs[i].type \notin {"done", "error"}

\* C8: no model call and no tool dispatch is started while the cancellation
\* signal is aborted.
NoCallAfterCancellation == late = {}

\* The round loop of an invocation has ended with the budget reached, and the
\* invocation has returned.
BudgetExhausted ==
  /\ pc = "returned"
  /\ messages # <<>>
  /\ toolRounds = cfg.maxToolRounds

\* One instruction was appended, as the last message; one call was made
\* without tool schemas, and it was the last call of a collaborator; the rounds
\* are those of the budget and the content returned is that call's content.
FinalCallMade ==
  /\ messages[Len(messages)] = Instruction
  /\ CountOf(messages, Instruction) = 1
  /\ CountOf(events, FinalCall) = 1
  /\ \A i \in 1..Len(events) :
       /\ (events[i].type = "model_call" /\ events[i].what = "final") => ~events[i].tools
       /\ \A j \in (i + 1)..Len(events) :
            events[i] = FinalCall => events[j].type \notin {"dispatch", "model_call"}
  /\ result[1].toolRounds = cfg.maxToolRounds
  /\ result[1].content = resp.content

\* C9, as stated: whenever the loop ends with the budget reached, the
\* instruction is appended, one call without tool schemas is made, no tool is
\* dispatched after it, toolRounds stays and the call's content is returned.
BudgetExhaustionMakesFinalCall == BudgetExhausted => FinalCallMade

\* C9, amended: the same, unless the invocation is an executeStream whose
\* cancellation signal was aborted.
BudgetExhaustionMakesFinalCallUnlessCancelled ==
  (BudgetExhausted /\ ~(mode = "executeStream" /\ aborted)) => FinalCallMade

\* An executeStream that was never cancelled has returned after using up a
\* budget of at least one round.
StreamBudgetExhausted ==
  /\ BudgetExhausted
  /\ mode = "executeStream"
  /\ ~aborted
  /\ toolRounds > 0

\* executeStream has returned the first response of the round loop as the
\* answer, without cancellation.
StreamAnsweredAtOnce ==
  /\ StreamCallOver
  /\ pc = "returned"
  /\ toolRounds = 0
  /\ idleRounds = 0

\* C10: on the same response, executeStream returns the result execute
\* returns.  Up to the first model call of the round loop the two entry points
\* run the same steps on the same state, so the result execute returns for the
\* response is the one ExecuteDecision gives in this state.
StreamResultIsExecuteResult ==
  StreamAnsweredAtOnce =>
    LET d == ExecuteDecision(resp, uuids)
    IN /\ ~d.use
       /\ result[1] = AgentResult(d.content, toolsUsed, toolRounds, totalUsage)

\* What the caller reads in a result returned earlier: its totalUsage is the
\* Agent's one totalUsage object, not a copy.
Held(r) == [r EXCEPT !.totalUsage = totalUsage]

\* C11: when the same Agent is invoked a second time and nothing is cancelled,
\* the totalUsage of the second result is the usage of the model calls of the
\* second invocation alone, and the results returned before read as they did
\* when they were returned.
SecondResultCountsOnlyItsOwnCalls ==
  (pc = "returned" /\ invocation = 2 /\ ~aborted) =>
    /\ result[1].totalUsage = issuedUsage
    /\ \A i \in 2..Len(result) : Held(result[i]) = result[i]

RewriteCall == ModelCall("rewrite", FALSE)

\* The dispatches of calls the Agent made up itself, by the prefix of their id:
\* "semantic" for the pipeline, "auto" for the legacy automatic search.
ForcedDispatches(prefixes) ==
  {i \in 1..Len(events) : /\ events[i].type = "dispatch"
                          /\ events[i].what # <<>>
                          /\ events[i].what[1].id[1] \in prefixes}

\* The system messages of the transcript that carry retrieved evidence.
EvidenceMessages(kinds) ==
  {i \in 1..Len(messages) : messages[i].role = "system" /\ messages[i].kind \in kinds}

\* The model calls of the round loop and the one after it.
LoopCalls ==
  {i \in 1..Len(events) : /\ events[i].type = "model_call"
                          /\ events[i].what \in {"round", "final"}}

RewriteCalls == {i \in 1..Len(events) : events[i] = RewriteCall}

\* The pipeline's calls are made at most once, before the calls of the loop,
\* and there is no forced call and no evidence of the pipeline without a rewrite
\* call.
PipelineOnceBeforeLoop ==
  /\ Cardinality(RewriteCalls) <= 1
  /\ Cardinality(ForcedDispatches({"semantic"})) <= 1
  /\ Cardinality(EvidenceMessages({"evidence"})) <= 1
  /\ \A i \in RewriteCalls \cup ForcedDispatches({"semantic"}) : \A j \in LoopCalls : i < j
  /\ RewriteCalls = {} =>
       ForcedDispatches({"semantic"}) = {} /\ EvidenceMessages({"evidence"}) = {}

\* The rewrite call is made only by the first lines of runSemanticPipeline, and
\* with no embedding model, or a blank one, they return false and call nothing.
RewriteOnlyWithEmbeddingModel ==
  /\ \A e \in EmbeddingModels :
       (pc = "tools" /\ Trim(e) = <<>> /\ runSemanticPipeline(e)) =>
         (pc' = "afterPipeline" /\ ranPipeline' = FALSE /\ events' = events)
  /\ (\E i \in 1..Len(events') : events'[i] = RewriteCall) /\ RewriteCalls = {} =>
       pc = "tools" /\ \E e \in EmbeddingModels : Trim(e) # <<>> /\ runSemanticPipeline(e)

\* C12 as stated: without a rewrite call, which is made whenever an embedding
\* model is configured, there is no forced semantic_search_messages call at all
\* and no evidence message in the transcript.
NoRetrievalWithoutEmbeddingModel ==
  RewriteCalls = {} =>
    /\ ForcedDispatches({"semantic", "auto"}) = {}
    /\ EvidenceMessages({"evidence", "autoEvidence"}) = {}

\* C12: the semantic pipeline runs at most once per invocation and before the
\* first model call of the round loop; with no embedding model, or a blank one,
\* it makes no rewrite call, dispatches no forced call of its own and injects
\* no evidence message of its own.  The legacy automatic search may still
\* dispatch its one call and splice its evidence in.
PipelineOnlyWithEmbeddingModel ==
  []PipelineOnceBeforeLoop /\ [][RewriteOnlyWithEmbeddingModel]_vars

\* An invocation without embedding model has returned after the legacy search
\* dispatched its call.
ReturnedAfterLegacySearchOnly ==
  /\ pc = "returned"
  /\ RewriteCalls = {}
  /\ ForcedDispatches({"auto"}) # {}
  /\ LoopCalls # {}

Question == Message("user", "question")

\* The forced search of the pipeline settles with first.
PipelineSettlesWith(first) ==
  pc = "pipeExec" /\ messages' = PipelineTranscript(messages, inflight, first)

\* The one evidence message of ms sits immediately before the last user
\* message of ms, so it is neither after it nor at the tail.
OneEvidenceBeforeLastUser(ms) ==
  LET at == {i \in 1..Len(ms) : ms[i] = Message("system", "evidence")}
  IN /\ Cardinality(at) = 1
     /\ \A i \in at : /\ i < Len(ms)
                      /\ i + 1 = LastIndexOfRole(ms, "user", Len(ms))

\* When the retrieval succeeded with a result, the pipeline leaves one evidence
\* message immediately before the last user message, and none otherwise.
PipelinePlacesEvidence ==
  /\ PipelineSettlesWith("ok") => OneEvidenceBeforeLastUser(messages')
  /\ \A first \in PipelineOutcomes \ {"ok"} :
       PipelineSettlesWith(first) =>
         \A i \in 1..Len(messages') : messages'[i].kind # "evidence"

\* For the rest of the invocation the evidence stays where it was put: after
\* the system prompt and the history, immediately before the user's question.
EvidenceStaysBeforeQuestion ==
  EvidenceMessages({"evidence"}) # {} =>
    /\ EvidenceMessages({"evidence"}) = {Len(cfg.historyMessages) + 2}
    /\ messages[Len(cfg.historyMessages) + 3] = Question
    /\ \A i \in Len(cfg.historyMessages) + 4..Len(messages) :
         messages[i].role = "user" => messages[i] = Instruction

ForcedCallInFlight == pc = "pipeExec"

\* C14 as stated: the forced call carries top_k within [1, 50] and
\* candidate_limit within [20, 500], whatever the maximum message limit.
PlanWithinClamps ==
  ForcedCallInFlight => plan.top_k \in 1..50 /\ plan.candidate_limit \in 20..500

\* C14: for every rewrite output the forced call carries top_k within [1, 50]
\* and candidate_limit of at most 500; candidate_limit is at least 20 unless a
\* configured maximum message limit below 20 caps it, and then it is that limit.
PlanWithinClampsOrCapped ==
  ForcedCallInFlight =>
    /\ plan.top_k \in 1..50
    /\ plan.candidate_limit \in 1..500
    /\ plan.candidate_limit < 20 => plan.candidate_limit \in MessageLimits

\* A forced call whose candidate_limit the message limit has capped below 20.
ForcedCallCappedBelowClamp ==
  ForcedCallInFlight /\ plan.candidate_limit < 20 /\ plan.top_k = 50

\* The messages of the transcript that carry the calls cs, and those that
\* answer the call with the id.
Carrying(cs) == {i \in 1..Len(messages) : messages[i] = AssistantMessage(cs)}
Answering(id) ==
  {i \in 1..Len(messages) : messages[i].role = "tool" /\ messages[i].tool_call_id = id}

\* What the pipeline has left when it has run: one dispatch of one
\* semantic_search_messages call, one assistant message carrying it with one
\* tool message of its id right after it, and the name as the first tool used.
PipelineLeftOneCall ==
  ranPipeline =>
    /\ Cardinality(ForcedDispatches({"semantic"})) = 1
    /\ \A d \in ForcedDispatches({"semantic"}) :
         LET cs == events[d].what
         IN /\ Len(cs) = 1
            /\ cs[1].name = "semantic_search_messages"
            /\ Cardinality(Carrying(cs)) = 1
            /\ Cardinality(Answering(cs[1].id)) = 1
            /\ \A i \in Carrying(cs) : i + 1 \in Answering(cs[1].id)
    /\ Cardinality({i \in 1..Len(messages) :
         /\ messages[i].role = "assistant"
         /\ messages[i].tool_calls # <<>>
         /\ messages[i].tool_calls[1].id[1] = "semantic"}) = 1
    /\ toolsUsed # <<>>
    /\ toolsUsed[1] = "semantic_search_messages"

\* The steps of the pipeline do not count a round, and the step on which the
\* forced search settles adds the name once, to an empty list.
PipelineCountsNoRound ==
  pc \in {"tools", "rewrite", "pipeExec"} =>
    /\ toolRounds' = toolRounds
    /\ toolRounds = 0
    /\ IF pc = "pipeExec" /\ pc' # pc
       THEN toolsUsed = <<>> /\ toolsUsed' = <<"semantic_search_messages">> /\ ranPipeline'
       ELSE toolsUsed' = toolsUsed

\* C15: when the semantic pipeline runs it dispatches exactly one forced
\* semantic_search_messages call, appends one assistant message carrying that
\* call followed by one tool message with its id, and adds the name to
\* toolsUsed once, as the first entry, without counting a round.
PipelineRecordsOneForcedCall ==
  []PipelineLeftOneCall /\ [][PipelineCountsNoRound]_vars

\* The pipeline ran, and a round of the loop dispatched tools after it.
ReturnedAfterPipelineAndRound ==
  pc = "returned" /\ ranPipeline /\ toolRounds = 1 /\ Len(toolsUsed) > 1

\* The calls the markup of a text parses into, numbered from seed.
Parsed(content, seed) == parseToolCallTags(content, seed)

\* The response of the current round finished for another reason than
\* tool_calls and its text holds markup that parses into at least one call.
FallbackResponse(r, seed) ==
  r.finishReason # "tool_calls" /\ Len(Parsed(r.content, seed)) >= 1

Last(seq) == seq[Len(seq)]

\* While the calls of a fallback response are with the tool-execution
\* collaborator: they are the calls of the markup, in markup order and with
\* their JSON text, they were dispatched as one batch, and the transcript ends
\* with the one assistant message that carries them.
FallbackCallsDispatched ==
  (pc = "toolExec" /\ FallbackResponse(resp, uuids - Len(inflight))) =>
    /\ inflight = Parsed(resp.content, uuids - Len(inflight))
    /\ Last(events) = Dispatch(inflight)
    /\ Cardinality({i \in 1..Len(events) : events[i] = Dispatch(inflight)}) = 1
    /\ Last(messages) = AssistantMessage(inflight)
    /\ Cardinality(Carrying(inflight)) = 1

\* A fallback response is not returned as the answer: when it has arrived whole
\* (in executeStream: the completion chunk is taken, the signal not aborted)
\* its calls go to the dispatch.
FallbackGoesToDispatch ==
  /\ (pc = "chat" /\ pc' \notin {"chat", "threw"} /\ FallbackResponse(resp', uuids)) =>
       pc' = "toolExec"
  /\ (/\ pc = "stream" /\ pending = <<>> /\ pc' \notin {"stream", "threw"}
      /\ FallbackResponse(resp, uuids)
      /\ ~aborted) =>
       pc' = "streamTail" /\ toolCalls'.calls = Parsed(resp.content, uuids)
  /\ (pc = "streamTail" /\ pc' # "streamTail" /\ FallbackResponse(resp, uuids - Len(toolCalls.calls))) =>
       pc' = "toolExec"

\* When the calls settle the n tool messages are appended in call order, the
\* round is counted once, and the loop is entered again.
FallbackRoundCounted ==
  (pc = "toolExec" /\ pc' # "toolExec" /\ FallbackResponse(resp, uuids - Len(inflight))) =>
    /\ pc' = "loop"
    /\ toolRounds' = toolRounds + 1
    /\ Len(messages') = Len(messages) + Len(inflight)
    /\ \A i \in 1..Len(inflight) :
         /\ messages'[Len(messages) + i].role = "tool"
         /\ messages'[Len(messages) + i].tool_call_id = inflight[i].id
    /\ SubSeq(messages', 1, Len(messages)) = messages

\* Back at the top of the loop after a round, the next step is a model call.
RoundFollowedByModelCall(cancellable) ==
  (/\ pc = "loop" /\ pc' # "loop" /\ toolRounds >= 1
   /\ cancellable => ~aborted) =>
    /\ Len(events') = Len(events) + 1
    /\ Last(events').type = "model_call"

UnparsableMarkup(r, seed) ==
  /\ r.finishReason # "tool_calls" \/ ~r.tool_calls.present
  /\ hasToolCallTags(r.content)
  /\ Len(Parsed(r.content, seed)) = 0

\* The events from the k-th on hold no model call and no dispatch.
NoCallFrom(log, k) ==
  \A i \in k..Len(log) : log[i].type \notin {"model_call", "dispatch"}

\* The step that takes such a response returns the thinking-stripped text,
\* with the rounds as they were and nothing dispatched or called.
UnparsableMarkupAnswers(r) ==
  /\ pc' = "returned"
  /\ result'[1].content = extractThinkingContent(r.content)
  /\ result'[1].toolRounds = toolRounds
  /\ result'[1].toolsUsed = toolsUsed
  /\ <<toolRounds', toolsUsed', messages', inflight'>> = <<toolRounds, toolsUsed, messages, inflight>>
  /\ NoCallFrom(events', Len(events) + 1)
  /\ SubSeq(events', 1, Len(events)) = events

UnparsableMarkupIsTheAnswer ==
  /\ (pc = "chat" /\ pc' \notin {"chat", "threw"} /\ UnparsableMarkup(resp', uuids)) =>
       UnparsableMarkupAnswers(resp')
  /\ (/\ pc = "stream" /\ pending = <<>> /\ pc' \notin {"stream", "threw"}
      /\ ~aborted
      /\ UnparsableMarkup(resp, uuids)) =>
       UnparsableMarkupAnswers(resp)

\* Once returned, the log of the invocation ends with the call that was
\* answered: nothing was retried.
NoRetryAfterUnparsableMarkup ==
  (pc = "returned" /\ ~aborted /\ UnparsableMarkup(resp, uuids)) =>
    /\ result[1].content = extractThinkingContent(resp.content)
    /\ \E k \in 1..Len(events) : events[k] = RoundCall /\ NoCallFrom(events, k + 1)

\* C17: when the markup of a response is consulted and no block of it parses
\* into a call, the invocation ends in that round with the thinking-stripped
\* text as the answer: nothing is dispatched, toolRounds is unchanged and no
\* model call follows.
UnparsableMarkupEndsTheRound ==
  [][UnparsableMarkupIsTheAnswer]_vars /\ []NoRetryAfterUnparsableMarkup

\* An answer that holds markup and lost its thinking span, in either entry point.
ReturnedStrippedTextWithMarkup ==
  /\ pc = "returned"
  /\ ~aborted
  /\ UnparsableMarkup(resp, uuids)
  /\ result[1].content # resp.content
  /\ hasToolCallTags(result[1].content)

\* C18: when the model transport fails during executeStream, the consumer has
\* received, as the last chunk, an error chunk that carries the usage
\* accumulated before the failure.
TransportFailureSendsErrorChunk ==
  (pc = "threw" /\ mode = "executeStream") =>
    /\ ChunksOf(events) # <<>>
    /\ Last(ChunksOf(events)).type = "error"
    /\ Last(ChunksOf(events)).usage = totalUsage

\* The plan of a rewrite that gave nothing: the user's message as the query
\* and the defaults, candidate_limit capped by the message limit when one is set.
DefaultPlan(maxMessagesLimit) ==
  [query |-> userMessage.text, top_k |-> 5,
   candidate_limit |-> IF maxMessagesLimit # 0 THEN Min(200, maxMessagesLimit) ELSE 200]

\* The rewrite call throws or answers without a JSON object, the catalog has
\* the tool: the invocation does not reject and the forced search is
\* dispatched with the default plan.
FailedRewriteStillSearches ==
  \A out \in RewriteOutputs : \A maxMessagesLimit \in MessageLimits :
    (/\ pc = "rewrite" /\ tools
     /\ out.kind \in {"throw", "text"}
     /\ RewriteSettles(out, maxMessagesLimit)) =>
      /\ pc' = "pipeExec"
      /\ plan' = DefaultPlan(maxMessagesLimit)
      /\ Len(inflight') = 1
      /\ inflight'[1].name = "semantic_search_messages"
      /\ inflight'[1].id[1] = "semantic"
      /\ Last(events') = Dispatch(inflight')

\* After the pipeline the round loop is entered, and its first step calls the
\* model unless the invocation has been cancelled.
LoopRunsAfterPipeline ==
  /\ (pc = "pipeExec" /\ pc' # "pipeExec") => pc' = "afterPipeline" /\ ranPipeline'
  /\ (pc = "afterPipeline" /\ ranPipeline /\ pc' # "afterPipeline") => pc' = "loop"
  /\ (pc = "loop" /\ toolRounds = 0 /\ ranPipeline /\ ~aborted /\ pc' # "loop") =>
       Last(events').type = "model_call" /\ Len(events') = Len(events) + 1

\* C19: when the rewrite call of the pipeline fails or its output holds no
\* parsable JSON object, the execution does not fail: the forced search is
\* dispatched with the raw user message as the query, top_k 5 and
\* candidate_limit 200 before the cap, and the round loop then runs.
FailedRewriteFallsBackToDefaults ==
  [][FailedRewriteStillSearches /\ LoopRunsAfterPipeline]_vars

\* The rewrite call threw, and the forced search is in flight with the defaults.
DefaultSearchInFlightAfterThrow ==
  /\ pc = "pipeExec"
  /\ plan = DefaultPlan(0)
  /\ issuedUsage = ZeroUsage
  /\ userMessage = RelationQuestion

\* executeToolCalls settles with outcomes for the calls of a round.
ToolsSettleWith(outcomes) ==
  /\ pc = "toolExec"
  /\ pc' # "toolExec"
  /\ messages' = messages \o ResultMessages(inflight, outcomes)

\* Every failed call of the round gets a tool message with the error text and
\* the id of the call, at the place of the call; the invocation does not
\* reject, the round is counted and the loop is entered again.
FailedToolIsRecorded ==
  \A outcomes \in OutcomeLists(Len(inflight)) :
    ToolsSettleWith(outcomes) =>
      /\ pc' = "loop"
      /\ toolRounds' = toolRounds + 1
      /\ Len(messages') = Len(messages) + Len(inflight)
      /\ \A i \in 1..Len(inflight) :
           outcomes[i] = "error" =>
             messages'[Len(messages) + i] = ToolMessage("error", inflight[i].id)

\* A tool message stays where it is, so the transcript handed to every later
\* model call holds it.
ToolMessagesStay ==
  \A i \in 1..Len(messages) :
    messages[i].role = "tool" => i <= Len(messages') /\ messages'[i] = messages[i]

\* C20: a tool result with success = false does not end the execution: it is
\* appended as a tool message with the error text and the id of the failing
\* call, the round is counted, and the transcript of the next model call holds
\* that message.
FailedToolResultIsFedBack ==
  [][FailedToolIsRecorded /\ ToolMessagesStay]_vars

\* The model is being called with the error of a failed call of the round
\* before in the transcript.
ModelCalledWithToolError ==
  /\ pc \in {"chat", "stream", "finalChat", "finalStream"}
  /\ toolRounds = 1
  /\ \E i \in 1..Len(messages) :
       /\ messages[i].role = "tool"
       /\ messages[i].kind = "error"
       /\ messages[i].tool_call_id[1] \in {"native", "fallback"}

\* The tool-call blocks of a text: the matches of the extractor's expression.
Blocks(content) == Matches(content, AnyToolOpen, AnyToolClose, 1)

\* C21: the value parseToolCallTags returns for a text whose blocks were
\* attempted and all failed differs from the value it returns for any text
\* that holds no block at all.
ExtractorTellsGarbageFromNoMarkup ==
  (pc = "returned" /\ mode = "execute" /\ Blocks(resp.content) # <<>>
   /\ Len(parseToolCallTags(resp.content, uuids)) = 0) =>
    \A c \in Contents :
      Blocks(c) = <<>> => parseToolCallTags(c, uuids) # parseToolCallTags(resp.content, uuids)

\* C22: when the catalog does not hold semantic_search_messages, the pipeline
\* is skipped entirely, with an embedding model configured or not: when
\* runSemanticPipeline has returned, no rewrite call and no dispatch were made,
\* and the transcript, toolsUsed and the usage total are as they were.
PipelineSkippedWithoutTool ==
  (pc = "afterPipeline" /\ ~tools) =>
    /\ ~ranPipeline
    /\ events = <<>>
    /\ messages = <<Message("system", "prompt")>> \o cfg.historyMessages \o <<Question>>
    /\ toolsUsed = <<>>
    /\ totalUsage = ZeroUsage

\* An opening marker of the text has no closing marker after it.
Unterminated(content, open, close) ==
  \E i \in 1..Len(content) :
    /\ content[i] \in open
    /\ \A j \in i + 1..Len(content) : content[j] \notin close

NativeCallsReceived ==
  /\ resp # NoResp
  /\ resp.tool_calls.present
  /\ resp.tool_calls.calls # <<>>

\* The native calls of the response are the ones of the round: while the
\* round's calls are with the tool-execution collaborator they are the native
\* calls, and the response is not the one taken as the final answer.
NativeCallsTaken ==
  /\ pc = "toolExec" => inflight = resp.tool_calls.calls
  /\ ~ExecuteAnswered
  /\ ~(StreamCallOver /\ pc = "returned")

RemainderForwardedBeforeDispatch ==
  (/\ mode = "executeStream"
   /\ pc = "toolExec"
   /\ resp # NoResp
   /\ inflight # <<>>
   /\ inflight = parseToolCallTags(resp.content, inflight[1].id[2])) =>
    IsSubsequence(Visible(resp.content), forwarded)

\* The calls handed to the tool-execution collaborator by the pipeline and by
\* the rounds so far, as <<dispatch, index>> pairs.
DispatchedCalls ==
  UNION {{<<i, k>> : k \in 1..Len(events[i].what)} :
           i \in ForcedDispatches({"semantic", "native", "fallback"})}

\* A batch is with the tool-execution collaborator; the assistant message of a
\* round is then the last of the transcript, its tool messages still to come.
BatchInFlight == pc \in {"toolExec", "pipeExec"}

\* Every tool message answers the call at its own distance in the nearest
\* assistant message before it.
ToolMessagesCorrelate ==
  \A i \in 1..Len(messages) :
    messages[i].role = "tool" =>
      \E a \in 1..i - 1 :
        /\ messages[a].role = "assistant"
        /\ \A j \in a + 1..i : messages[j].role = "tool"
        /\ i - a <= Len(messages[a].tool_calls)
        /\ messages[a].tool_calls[i - a].id = messages[i].tool_call_id

\* The tool messages of an assistant message come right after it, one per
\* call, in call-index order.
ToolMessagesInCallOrder ==
  \A a \in 1..Len(messages) :
    (messages[a].role = "assistant" /\ ~(BatchInFlight /\ a = Len(messages))) =>
      \A k \in 1..Len(messages[a].tool_calls) :
        /\ a + k <= Len(messages)
        /\ messages[a + k].role = "tool"
        /\ messages[a + k].tool_call_id = messages[a].tool_calls[k].id

\* Every call dispatched has exactly one tool message once its batch is back.
OneToolMessagePerCall ==
  ~BatchInFlight =>
    \A d \in DispatchedCalls : Cardinality(Answering(events[d[1]].what[d[2]].id)) = 1

ChunksOfType(type) == {i \in 1..Len(events) : events[i].type = type}

\* The tool_start chunks of a batch come just before its dispatch and its
\* tool_result chunks just after, one per call, in call-index order.
BatchIsAnnouncedAndReported ==
  \A i \in ForcedDispatches({"semantic", "native", "fallback"}) :
    LET calls == events[i].what
        n == Len(calls)
    IN /\ i > n
       /\ \A k \in 1..n : events[i - n + k - 1] = ToolStart(calls[k].name)
       /\ ~(BatchInFlight /\ i = Len(events)) =>
            \A k \in 1..n :
              /\ i + k <= Len(events)
              /\ events[i + k] = ToolResult(calls[k].name)

CancellationObserved ==
  /\ aborted
  /\ pc \in {"idle", "loop", "stream", "finalStream"}
  /\ pc' = "returned"

\* The text received of the response in progress, if there is one.
TextSoFar == IF pc \in {"stream", "finalStream"} THEN Delivered ELSE <<>>

\* The batches of the rounds: what handleToolCalls handed over, an empty list
\* included.
RoundDispatches ==
  {i \in 1..Len(events) :
     /\ events[i].type = "dispatch"
     /\ events[i].what # <<>> => events[i].what[1].id[1] \in {"native", "fallback"}}

\* toolRounds counts the rounds whose batch is back.
RoundsCompletedAreCounted ==
  pc \notin {"idle", "threw"} =>
    toolRounds = Cardinality(RoundDispatches) - (IF pc = "toolExec" THEN 1 ELSE 0)

\* A step that observes cancellation returns a result and does not throw; in
\* executeStream it sends one chunk, a done chunk with the usage total, and the
\* content returned is the text received so far of the answer in progress.
CancellationReturnsNormally ==
  CancellationObserved =>
    /\ Len(result') = Len(result) + 1
    /\ result'[1].toolsUsed = (IF pc = "idle" THEN <<>> ELSE toolsUsed)
    /\ result'[1].toolRounds = (IF pc = "idle" THEN 0 ELSE toolRounds)
    /\ result'[1].totalUsage = totalUsage
    /\ mode' = "execute" => result'[1].content = <<>> /\ events' = events
    /\ mode' = "executeStream" =>
         /\ result'[1].content = TextSoFar
         /\ Len(events') = (IF pc = "idle" THEN 0 ELSE Len(events)) + 1
         /\ events'[Len(events')].type = "done"
         /\ events'[Len(events')].usage = totalUsage
         /\ \A i \in 1..Len(events') : events'[i].type # "error"

\* C28: when executeStream observes cancellation at one of its checks it sends
\* a done chunk, not an error chunk, with the accumulated usage, and returns a
\* result with the text accumulated so far and with the tools and rounds
\* completed before; execute returns a result too instead of throwing.
CancellationIsNotAnError ==
  /\ []RoundsCompletedAreCounted
  /\ [][CancellationReturnsNormally]_vars

\* executeStream has returned on cancellation in the middle of its last
\* stream, after one round, with part of the answer.
CancelledAfterRoundWithPartialText ==
  /\ mode = "executeStream"
  /\ pc = "returned"
  /\ aborted
  /\ toolRounds = 1
  /\ CountOf(events, FinalCall) = 1
  /\ result[1].content # <<>>
  /\ Len(result[1].content) < Len(resp.content)

\* What the k-th block of a text parses to, and the blocks that parse and have
\* a name and arguments.
BlockParse(content, k) ==
  ParseJson(Trim(SubSeq(content, Blocks(content)[k][1] + 1, Blocks(content)[k][2] - 1)))

UsableBlocks(content) ==
  {k \in 1..Len(Blocks(content)) :
     /\ BlockParse(content, k).ok
     /\ BlockParse(content, k).name # ""
     /\ BlockParse(content, k).arguments # ""}

\* The calls are the calls of the usable blocks of the text, in the order of
\* the blocks, each of type function, with the block's name, its arguments as
\* JSON text and an id of its own.
CallsOfUsableBlocks(calls, content) ==
  /\ Len(calls) = Cardinality(UsableBlocks(content))
  /\ \A k \in UsableBlocks(content) :
       LET call == calls[Cardinality({j \in UsableBlocks(content) : j <= k})]
       IN /\ call.type = "function"
          /\ call.name = BlockParse(content, k).name
          /\ call.arguments = BlockParse(content, k).arguments
  /\ \A m, n \in 1..Len(calls) : m # n => calls[m].id # calls[n].id

\* C29: for the text of a response with tool-call blocks, of which some may
\* fail to parse, parseToolCallTags returns the normalized calls of exactly the
\* blocks that parse and have a name and arguments, in their order; and the
\* calls extracted from a response that are with the tool-execution
\* collaborator are those.
ExtractorSkipsBadBlocks ==
  (resp # NoResp /\ hasToolCallTags(resp.content)) =>
    /\ CallsOfUsableBlocks(parseToolCallTags(resp.content, uuids), resp.content)
    /\ (pc = "toolExec" /\ inflight # <<>> /\ inflight[1].id[1] = "fallback") =>
         CallsOfUsableBlocks(inflight, resp.content)

\* The two calls of a text whose second block of three does not parse are with
\* the tool-execution collaborator.
CallsAroundBadBlockInFlight ==
  /\ pc = "toolExec"
  /\ resp # NoResp
  /\ Len(Blocks(resp.content)) = 3
  /\ UsableBlocks(resp.content) = {1, 3}
  /\ Len(inflight) = 2
  /\ inflight[2].name = "search_messages"

\* C30: in executeStream every iteration of the round loop that does not
\* return increments toolRounds, so that back at the top of the loop every
\* round call made so far has been counted, and at most budget + 1 model calls
\* are made by the loop and the last call together.
StreamIterationsAreCounted ==
  mode = "executeStream" =>
    /\ pc = "loop" => CountOf(events, RoundCall) <= toolRounds
    /\ Cardinality(LoopCalls) <= cfg.maxToolRounds + 1

\* The names of the calls handed to the tool-execution collaborator, in the
\* order of the dispatches and of the calls within each.
RECURSIVE DispatchedNames(_)
DispatchedNames(log) ==
  IF log = <<>> THEN <<>>
  ELSE (IF log[1].type = "dispatch" THEN Names(log[1].what) ELSE <<>>)
         \o DispatchedNames(Tail(log))

\* C31: the toolsUsed of a returned result lists, in dispatch order and with
\* duplicates, the name of every call dispatched during the execution, the
\* call of the legacy automatic search included.
ToolsUsedListsEveryDispatch ==
  (pc = "returned" /\ result # <<>>) =>
    result[1].toolsUsed = DispatchedNames(events)

\* s is an initial part of t.
IsPrefix(s, t) == Len(s) <= Len(t) /\ s = SubSeq(t, 1, Len(s))

ExportPaths == <<"canvas", "png", "img">>

\* C32: captureAsImageData tries its paths in the order canvas, PNG, image
\* element, returns the data of the last path it tried, and when it throws
\* after snapdom gave a result, it has tried all three paths and the error is
\* 'Failed to capture image data'.
CaptureFallsThroughInOrder ==
  /\ IsPrefix(capture.tried, ExportPaths)
  /\ capture.pc = "returned" => capture.data.path = capture.tried[Len(capture.tried)]
  /\ (capture.pc = "threw" /\ capture.tried # <<>>) =>
       /\ capture.tried = ExportPaths
       /\ capture.error = "Failed to capture image data"

====
